---- MODULE Spec2Model ----
(***************************************************************************)
(* Model of projectapp: the task prerequisite graph (has_cycle, the        *)
(* check_cycle m2m signal, TaskSerializer.validate/create/update), the     *)
(* milestone due-date recalculation (Task.save, the post_save/post_delete  *)
(* signals, Milestone.recalculate_and_save_date) and the project progress  *)
(* computation (Project._calculate_progress_value, Milestone.is_complete). *)
(*                                                                         *)
(* Dates are day numbers 1..MaxDate, all on or after "today", so the       *)
(* serializer's validate_due_date never rejects; None (0) is a NULL date   *)
(* or foreign key.  Progress values are kept in hundredths of a percent    *)
(* (3333 is 33.33).                                                        *)
(***************************************************************************)
EXTENDS Integers, FiniteSets, Sequences, TLC

\* ------------------------------------------------------------------ bounds
MaxTasks == 3
MaxMsTasks == 3
MaxMilestones == 2
MaxDate == 2
MaxProgTasks == 4
MaxProgMilestones == 2
MaxDfsNodes == 4
MaxDfsEdges == 4

None == 0

TaskIds == 1 .. MaxTasks
Dates == 1 .. MaxDate
Projects == {1, 2}
STATUS_CHOICES == {"todo", "in_progress", "done"}

VARIABLES
  Task,       \* the task table: pk -> row (prerequisite_tasks is the m2m through table)
  Milestone,  \* the milestone table: pk -> row
  response,   \* the last operation, its request and its outcome
  dfs,        \* one running has_cycle call: frames, visited set, expansions
  Tag,        \* the tag table: pk -> row
  requests    \* the requests in progress: what each has read and where it stands

vars == <<Task, Milestone, response, dfs, Tag, requests>>

\* ------------------------------------------------------------ small helpers
Max(S) == CHOOSE x \in S : \A y \in S : y <= x

Min(S) == CHOOSE x \in S : \A y \in S : x <= y

Put(f, k, v) == [x \in (DOMAIN f) \cup {k} |-> IF x = k THEN v ELSE f[x]]

Drop(f, k) == [x \in (DOMAIN f) \ {k} |-> f[x]]

\* A request body: keys is the set of fields it carries ("x" in data); a field
\* that is not carried holds its default here and is never read.
NoData ==
  [keys |-> {}, project |-> None, milestone |-> None, prerequisite_tasks |-> {},
   start_date |-> None, due_date |-> None, status |-> "todo",
   tag_ids |-> {}, new_tags |-> {}, tags |-> {}]

\* What the last operation was asked and what it answered: request is the body,
\* errors the (field, error) pairs reported, the empty set when it succeeded.
NoResponse ==
  [op |-> "none", task |-> None, ms |-> None, request |-> NoData,
   errors |-> {}, value |-> 0, writes |-> 0]

Err(f, e) == [field |-> f, error |-> e]

\* No has_cycle call is running.
DfsIdle ==
  [stack |-> <<>>, visited |-> {}, expanded |-> <<>>, calls |-> 0, result |-> "idle",
   parent |-> None, target_id |-> None]

\* ---------------------------------------------------------- Task.has_cycle
\* Variant: the walk follows the relation from the other side (parent.dependents).
dependents(T, parent) == {t \in DOMAIN T : parent \in T[t].prerequisite_tasks}

\* The prerequisite edges has_cycle follows from one task (parent.prerequisite_tasks.all()).
grandparents(T, parent) == T[parent].prerequisite_tasks

RECURSIVE has_cycle_call(_, _, _, _)
RECURSIVE has_cycle_loop(_, _, _, _)
\* One call has_cycle(parent, target_id, visited): the result and the shared visited set.
has_cycle_call(T, parent, target_id, visited) ==
  IF parent = target_id THEN [found |-> TRUE, visited |-> visited]
  ELSE IF parent \in visited THEN [found |-> FALSE, visited |-> visited]
  ELSE has_cycle_loop(T, grandparents(T, parent), target_id, visited \cup {parent})

\* The for loop over the grandparents still to visit, returning at the first hit.
has_cycle_loop(T, pending, target_id, visited) ==
  IF pending = {} THEN [found |-> FALSE, visited |-> visited]
  ELSE LET g == Min(pending)
           r == has_cycle_call(T, g, target_id, visited)
       IN IF r.found THEN r
          ELSE has_cycle_loop(T, pending \ {g}, target_id, r.visited)

\* Variant: only the candidate and its direct prerequisites are compared.
has_cycle_direct_only(T, parent, target_id) ==
  parent = target_id \/ target_id \in grandparents(T, parent)

\* Variant: only the candidate itself is compared with the target.
has_cycle_self_only(T, parent, target_id) == parent = target_id

has_cycle(T, parent, target_id) == has_cycle_call(T, parent, target_id, {}).found

\* ------------------------------------ Milestone.recalculate_and_save_date
\* self.tasks: the tasks linked to milestone ms.
tasks_of(T, ms) == {t \in DOMAIN T : T[t].milestone_id = ms}

\* self.tasks.aggregate(Max('due_date')): None when no task is linked.
max_date(T, ms) ==
  IF tasks_of(T, ms) = {} THEN None ELSE Max({T[t].due_date : t \in tasks_of(T, ms)})

\* Variant: the date is saved whenever a task is linked, changed or not.
recalculate_and_save_always(T, M, ms, self_due_date) ==
  LET latest == max_date(T, ms)
  IN IF latest = None THEN [Milestone |-> M, writes |-> 0]
     ELSE [Milestone |-> [M EXCEPT ![ms].due_date = latest], writes |-> 1]

\* Variant: the call brings every milestone that has tasks to its task maximum.
recalculate_every_milestone(T, M, ms, self_due_date) ==
  [Milestone |-> [m \in DOMAIN M |->
                    IF max_date(T, m) = None THEN M[m]
                    ELSE [M[m] EXCEPT !.due_date = max_date(T, m)]],
   writes |-> IF max_date(T, ms) = None \/ max_date(T, ms) = self_due_date THEN 0 ELSE 1]

\* recalculate_and_save_date on a Milestone object whose in-memory due_date is
\* self_due_date; saves only when the task maximum differs from it.
recalculate_and_save_date(T, M, ms, self_due_date) ==
  LET latest == max_date(T, ms)
  IN IF latest = None THEN [Milestone |-> M, writes |-> 0]
     ELSE IF latest # self_due_date
          THEN [Milestone |-> [M EXCEPT ![ms].due_date = latest], writes |-> 1]
          ELSE [Milestone |-> M, writes |-> 0]

\* try: Milestone.objects.get(pk=ms).recalculate_and_save_date()
\* except Milestone.DoesNotExist: pass
get_and_recalculate(T, M, ms) ==
  IF ms \in DOMAIN M
  THEN recalculate_and_save_date(T, M, ms, M[ms].due_date).Milestone
  ELSE M

\* post_save receiver, after the row is written; old_ms_id was captured by pre_save.
update_milestones_on_task_save(T, M, created, old_ms_id, new_ms_id) ==
  IF created
  THEN (IF new_ms_id # None THEN get_and_recalculate(T, M, new_ms_id) ELSE M)
  ELSE LET M1 == IF new_ms_id # None /\ new_ms_id # old_ms_id
                 THEN get_and_recalculate(T, M, new_ms_id) ELSE M
       IN IF old_ms_id # None /\ old_ms_id # new_ms_id
          THEN get_and_recalculate(T, M1, old_ms_id) ELSE M1

\* pre_save receiver: the milestone id of the stored row, None for a new task.
capture_old_milestone(T, pk) == IF pk \in DOMAIN T THEN T[pk].milestone_id ELSE None

\* Variant: only the milestone the task is saved into is recalculated.
save_new_only(T, M, pk, row, created, original_milestone_id, original_due_date, milestone_due) ==
  LET T1 == Put(T, pk, row)
  IN [Task |-> T1,
      Milestone |-> IF row.milestone_id # None
                    THEN get_and_recalculate(T1, M, row.milestone_id) ELSE M]

\* Task.save of the in-memory task `row` with primary key pk.  original_* are the
\* tracking values taken when the object was built; milestone_due is the due_date
\* held by the cached self.milestone object (read when the request started).
save(T, M, pk, row, created, original_milestone_id, original_due_date, milestone_due) ==
  LET milestone_changed == row.milestone_id # original_milestone_id
      date_changed == row.due_date # original_due_date
      old_ms_id == capture_old_milestone(T, pk)
      T1 == Put(T, pk, row)
      M1 == update_milestones_on_task_save(T1, M, created, old_ms_id, row.milestone_id)
      M2 == IF row.milestone_id # None /\ (milestone_changed \/ date_changed)
            THEN recalculate_and_save_date(T1, M1, row.milestone_id, milestone_due).Milestone
            ELSE M1
      M3 == IF milestone_changed /\ original_milestone_id # None
            THEN get_and_recalculate(T1, M2, original_milestone_id)
            ELSE M2
  IN [Task |-> T1, Milestone |-> M3]

\* Variant: the row goes and no milestone is recalculated.
delete_keep_date(T, M, pk) ==
  [Task |-> [x \in (DOMAIN T) \ {pk} |-> [T[x] EXCEPT !.prerequisite_tasks = @ \ {pk}]],
   Milestone |-> M]

\* Task.delete: the row and its through rows go, then the post_delete receiver
\* recalculates the former milestone.
delete(T, M, pk) ==
  LET T1 == [x \in (DOMAIN T) \ {pk} |->
               [T[x] EXCEPT !.prerequisite_tasks = @ \ {pk}]]
      ms == T[pk].milestone_id
  IN [Task |-> T1,
      Milestone |-> IF ms # None THEN get_and_recalculate(T1, M, ms) ELSE M]

\* ------------------------------------------- prerequisite_tasks (m2m) writes
\* The m2m_changed receiver.  It raises for the first offending pk met while
\* iterating pk_set, a Python set whose order is not specified: the result is
\* the set of errors it may raise (empty: it returns normally).
\* Variant: the receiver keeps the self test and drops the has_cycle test.
check_cycle_self_only(T, instance, action, pk_set) ==
  IF action # "pre_add" THEN {}
  ELSE {"self_dependency" : pk \in {x \in pk_set \cap DOMAIN T : x = instance}}

check_cycle(T, instance, action, pk_set) ==
  IF action # "pre_add" THEN {}
  ELSE {(IF pk = instance THEN "self_dependency" ELSE "cycle") :
          pk \in {x \in pk_set \cap DOMAIN T : x = instance \/ has_cycle(T, x, instance)}}

\* instance.prerequisite_tasks.add(*objs): pre_add is sent with the ids not yet
\* linked; an exception leaves the through table as it was.
add(T, instance, objs) ==
  LET pk_set == objs \ T[instance].prerequisite_tasks
      errors == IF objs = {} THEN {} ELSE check_cycle(T, instance, "pre_add", pk_set)
  IN IF errors = {}
     THEN {[error |-> "", Task |-> [T EXCEPT ![instance].prerequisite_tasks = @ \cup objs]]}
     ELSE {[error |-> e, Task |-> T] : e \in errors}

\* instance.dependents.add(*objs), the relation written from its other side:
\* each of objs gets instance as a prerequisite.  pre_add is sent with
\* reverse=True, instance and the ids not yet linked; the receiver does not
\* look at reverse.
add_dependents(T, instance, objs) ==
  LET pk_set == objs \ dependents(T, instance)
      errors == IF objs = {} THEN {} ELSE check_cycle(T, instance, "pre_add", pk_set)
  IN IF errors = {}
     THEN {[error |-> "",
            Task |-> [t \in DOMAIN T |->
                        IF t \in objs THEN [T[t] EXCEPT !.prerequisite_tasks = @ \cup {instance}]
                        ELSE T[t]]]}
     ELSE {[error |-> e, Task |-> T] : e \in errors}

\* instance.prerequisite_tasks.remove(*objs): no check runs on removal.
remove(T, instance, objs) ==
  [T EXCEPT ![instance].prerequisite_tasks = @ \ objs]

\* instance.prerequisite_tasks.set(objs): remove what is not in objs, add what is
\* new, in one transaction.
set(T, instance, objs) ==
  LET old == T[instance].prerequisite_tasks
      T1 == remove(T, instance, old \ objs)
  IN {(IF r.error = "" THEN r ELSE [r EXCEPT !.Task = T]) :
        r \in add(T1, instance, objs \ old)}

\* ------------------------------------------------------------ TaskSerializer
\* request.data.get(k): None when the field is absent (or null).
get(data, k) == IF k \in data.keys THEN data[k] ELSE None

\* data.get('prerequisite_tasks', []) / validated_data.pop('prerequisite_tasks', []).
get_prerequisite_tasks(data) ==
  IF "prerequisite_tasks" \in data.keys THEN data.prerequisite_tasks ELSE {}

\* TaskSerializer.__init__ and the related fields' to_internal_value: every
\* prerequisite pk must be in the queryset narrowed to the project (of the
\* instance on update, of the request on create), the milestone must exist, and
\* a create needs a project and a due date.  All field errors are reported together.
field_errors(T, M, instance, data) ==
  LET project == IF instance # None THEN T[instance].project ELSE get(data, "project")
      queryset == {t \in DOMAIN T : T[t].project = project}
      milestone == get(data, "milestone")
  IN (IF get_prerequisite_tasks(data) \subseteq queryset THEN {}
      ELSE {Err("prerequisite_tasks", "does_not_exist")})
     \cup (IF milestone = None \/ milestone \in DOMAIN M THEN {}
           ELSE {Err("milestone", "does_not_exist")})
     \cup (IF instance = None /\ get(data, "project") = None
           THEN {Err("project", "required")} ELSE {})
     \cup (IF instance = None /\ get(data, "due_date") = None
           THEN {Err("due_date", "required")} ELSE {})

\* Variant: the cycle loop runs before the self-dependency test.
validate_cycle_first(T, M, instance, data) ==
  LET given == get_prerequisite_tasks(data)
      project == IF get(data, "project") # None THEN data.project ELSE T[instance].project
      milestone == IF "milestone" \in data.keys THEN data.milestone
                   ELSE IF instance # None THEN T[instance].milestone_id ELSE None
      prerequisites == IF instance # None /\ given = {}
                       THEN T[instance].prerequisite_tasks ELSE given
      start_date == IF instance # None /\ get(data, "start_date") = None
                    THEN T[instance].start_date ELSE get(data, "start_date")
      due_date == IF instance # None /\ get(data, "due_date") = None
                  THEN T[instance].due_date ELSE get(data, "due_date")
  IN IF milestone # None /\ M[milestone].project # project
     THEN {Err("milestone", "milestone_project")}
     ELSE IF \E prereq \in prerequisites : T[prereq].project # project
     THEN {Err("prerequisite_tasks", "prerequisite_project")}
     ELSE IF instance # None /\ \E proposed_prerequisite \in prerequisites :
                                   has_cycle(T, proposed_prerequisite, instance)
     THEN {Err("prerequisite_tasks", "cycle")}
     ELSE IF instance # None /\ instance \in prerequisites
     THEN {Err("prerequisite_tasks", "self_dependency")}
     ELSE IF start_date # None /\ due_date # None /\ start_date > due_date
     THEN {Err("due_date", "start_after_due")}
     ELSE IF prerequisites # {} /\ start_date # None
             /\ start_date < Max({T[parent].due_date : parent \in prerequisites})
     THEN {Err("start_date", "finish_to_start")}
     ELSE {}

\* TaskSerializer.validate: raises at the first failing check, in this order.
validate(T, M, instance, data) ==
  LET given == get_prerequisite_tasks(data)
      project == IF get(data, "project") # None THEN data.project ELSE T[instance].project
      milestone == IF "milestone" \in data.keys THEN data.milestone
                   ELSE IF instance # None THEN T[instance].milestone_id ELSE None
      prerequisites == IF instance # None /\ given = {}
                       THEN T[instance].prerequisite_tasks ELSE given
      start_date == IF instance # None /\ get(data, "start_date") = None
                    THEN T[instance].start_date ELSE get(data, "start_date")
      due_date == IF instance # None /\ get(data, "due_date") = None
                  THEN T[instance].due_date ELSE get(data, "due_date")
  IN IF milestone # None /\ M[milestone].project # project
     THEN {Err("milestone", "milestone_project")}
     ELSE IF \E prereq \in prerequisites : T[prereq].project # project
     THEN {Err("prerequisite_tasks", "prerequisite_project")}
     ELSE IF instance # None /\ instance \in prerequisites
     THEN {Err("prerequisite_tasks", "self_dependency")}
     ELSE IF instance # None /\ \E proposed_prerequisite \in prerequisites :
                                   has_cycle(T, proposed_prerequisite, instance)
     THEN {Err("prerequisite_tasks", "cycle")}
     ELSE IF start_date # None /\ due_date # None /\ start_date > due_date
     THEN {Err("due_date", "start_after_due")}
     ELSE IF prerequisites # {} /\ start_date # None
             /\ start_date < Max({T[parent].due_date : parent \in prerequisites})
     THEN {Err("start_date", "finish_to_start")}
     ELSE {}

\* Task.clean (run by full_clean) on the in-memory task `row`; pk is None for an
\* unsaved task.  The prerequisites it walks are the stored ones; it raises for
\* the first offending one, so the result is the set of errors it may raise.
clean(T, M, pk, row) ==
  IF row.project = None THEN {}
  ELSE IF row.milestone_id # None /\ M[row.milestone_id].project # row.project
  THEN {Err("__all__", "milestone_project")}
  ELSE IF pk = None THEN {}
  ELSE {Err("prerequisite_tasks", IF parent = pk THEN "self_dependency" ELSE "cycle") :
          parent \in {x \in T[pk].prerequisite_tasks : x = pk \/ has_cycle(T, x, pk)}}

\* setattr(instance, attr, value) for every validated field but the m2m ones.
assign(row, data) ==
  [project |-> IF "project" \in data.keys THEN data.project ELSE row.project,
   start_date |-> IF "start_date" \in data.keys THEN data.start_date ELSE row.start_date,
   due_date |-> IF "due_date" \in data.keys THEN data.due_date ELSE row.due_date,
   status |-> IF "status" \in data.keys THEN data.status ELSE row.status,
   milestone_id |-> IF "milestone" \in data.keys THEN data.milestone ELSE row.milestone_id,
   prerequisite_tasks |-> row.prerequisite_tasks,
   tags |-> row.tags]

\* Task(**validated_data): the model defaults for what the request leaves out.
NewTask ==
  [project |-> None, start_date |-> None, due_date |-> None, status |-> "todo",
   milestone_id |-> None, prerequisite_tasks |-> {}, tags |-> {}]

\* The due_date of the Milestone object a task carries in self.milestone.
milestone_due(M, ms) == IF ms # None /\ ms \in DOMAIN M THEN M[ms].due_date ELSE None

\* Variant: the new row takes the key of a stored task when there is one.
next_pk_stored(T, ids) == IF DOMAIN T = {} THEN Min(ids) ELSE Min(DOMAIN T)

\* The primary key the store gives a new task.
next_pk(T, ids) == Min(ids \ DOMAIN T)

\* validated_data.pop('tag_ids', []), then `if tag_ids: task.tags.set(tag_ids)`.
set_tag_ids(T, pk, data) ==
  IF "tag_ids" \in data.keys /\ data.tag_ids # {}
  THEN [T EXCEPT ![pk].tags = data.tag_ids] ELSE T

\* TaskSerializer.update after validation: full_clean, save, the tag set, then the
\* prerequisite set, which runs when the request's prerequisite list is not
\* empty.  The result is the set of outcomes (one, unless the m2m receiver may
\* raise either error).
update(T, M, instance, data) ==
  LET row == assign(T[instance], data)
      cleaned == clean(T, M, instance, row)
      saved == save(T, M, instance, row, FALSE, T[instance].milestone_id,
                    T[instance].due_date, milestone_due(M, row.milestone_id))
      tagged == set_tag_ids(saved.Task, instance, data)
      prerequisite_tasks == get_prerequisite_tasks(data)
  IN IF cleaned # {}
     THEN {[errors |-> {e}, Task |-> T, Milestone |-> M] : e \in cleaned}
     ELSE IF prerequisite_tasks = {}
     THEN {[errors |-> {}, Task |-> tagged, Milestone |-> saved.Milestone]}
     ELSE {[errors |-> IF r.error = "" THEN {} ELSE {Err("__all__", r.error)},
            Task |-> r.Task, Milestone |-> saved.Milestone] :
             r \in set(tagged, instance, prerequisite_tasks)}

\* TaskSerializer.create after validation, for the new primary key pk.
create(T, M, pk, data) ==
  LET row == assign(NewTask, data)
      cleaned == clean(T, M, None, row)
      saved == save(T, M, pk, row, TRUE, None, row.due_date,
                    milestone_due(M, row.milestone_id))
      tagged == set_tag_ids(saved.Task, pk, data)
      prerequisite_tasks == get_prerequisite_tasks(data)
  IN IF cleaned # {}
     THEN {[errors |-> {e}, Task |-> T, Milestone |-> M] : e \in cleaned}
     ELSE IF prerequisite_tasks = {}
     THEN {[errors |-> {}, Task |-> tagged, Milestone |-> saved.Milestone]}
     ELSE {[errors |-> IF r.error = "" THEN {} ELSE {Err("__all__", r.error)},
            Task |-> r.Task, Milestone |-> saved.Milestone] :
             r \in set(tagged, pk, prerequisite_tasks)}

\* tag_ids = PrimaryKeyRelatedField(queryset=Tag.objects.all(), many=True): every
\* pk must be the pk of a stored tag, of whatever project.
tag_ids_errors(G, data) ==
  IF "tag_ids" \in data.keys /\ ~ (data.tag_ids \subseteq DOMAIN G)
  THEN {Err("tag_ids", "does_not_exist")} ELSE {}

RECURSIVE add_new_tags(_, _, _, _)
\* for tag_name in new_tags: Tag.objects.get_or_create(name=tag_name,
\* project=task.project); task.tags.add(tag).  A created tag takes the next pk.
add_new_tags(T, G, pk, names) ==
  IF names = {} THEN [Task |-> T, Tag |-> G]
  ELSE LET tag_name == CHOOSE name \in names : TRUE
           found == {g \in DOMAIN G : G[g].name = tag_name /\ G[g].project = T[pk].project}
           tag == IF found # {} THEN Min(found) ELSE Max(DOMAIN G \cup {0}) + 1
           G1 == IF found # {} THEN G
                 ELSE Put(G, tag, [name |-> tag_name, project |-> T[pk].project])
       IN add_new_tags([T EXCEPT ![pk].tags = @ \cup {tag}], G1, pk, names \ {tag_name})

\* validated_data.pop('new_tags', ''), split at the commas.
get_new_tags(data) == IF "new_tags" \in data.keys THEN data.new_tags ELSE {}

\* ------------------------------------------------------------------ TaskForm
\* TaskForm.__init__ narrows the choice fields to the project of the view (the
\* prerequisites also leave out the task itself); a choice outside the queryset
\* is a field error, and so is a missing due date.
form_field_errors(T, M, G, project, instance, data) ==
  (IF get_prerequisite_tasks(data) \subseteq {t \in DOMAIN T : T[t].project = project} \ {instance}
   THEN {} ELSE {Err("prerequisite_tasks", "invalid_choice")})
  \cup (IF get(data, "milestone") = None
           \/ get(data, "milestone") \in {ms \in DOMAIN M : M[ms].project = project}
        THEN {} ELSE {Err("milestone", "invalid_choice")})
  \cup (IF "tags" \in data.keys /\ ~ (data.tags \subseteq {g \in DOMAIN G : G[g].project = project})
        THEN {Err("tags", "invalid_choice")} ELSE {})
  \cup (IF get(data, "due_date") = None THEN {Err("due_date", "required")} ELSE {})

\* cleaned_data: a field that failed its own validation is left out.
cleaned_data(data, errors) ==
  [data EXCEPT !.keys = @ \ {e.field : e \in errors}]

\* TaskForm.clean: every failing check adds its error and the next check runs.
form_clean(T, M, project, instance, cleaned) ==
  LET prerequisites == get_prerequisite_tasks(cleaned)
      start_date == get(cleaned, "start_date")
      due_date == get(cleaned, "due_date")
      milestone == get(cleaned, "milestone")
  IN (IF instance # None /\ \E proposed_prerequisite \in prerequisites :
                               has_cycle(T, proposed_prerequisite, instance)
      THEN {Err("prerequisite_tasks", "cycle")} ELSE {})
     \cup (IF instance # None /\ instance \in prerequisites
           THEN {Err("prerequisite_tasks", "self_dependency")} ELSE {})
     \cup (IF prerequisites # {} /\ start_date # None
              /\ start_date < Max({T[p].due_date : p \in prerequisites})
           THEN {Err("start_date", "finish_to_start")} ELSE {})
     \cup (IF start_date # None /\ due_date # None /\ start_date > due_date
           THEN {Err("due_date", "start_after_due")} ELSE {})
     \cup (IF milestone # None /\ M[milestone].project # project
           THEN {Err("milestone", "milestone_project")} ELSE {})

\* construct_instance: the cleaned values of the model fields of the form go to
\* the instance (an empty input is a cleaned None); a field that failed keeps the
\* value the instance had.  The form has no project field and the m2m fields
\* are saved later.
construct_instance(row, data, errors) ==
  LET failed == {e.field : e \in errors}
  IN [row EXCEPT !.start_date = get(data, "start_date"),
                 !.due_date = IF "due_date" \in failed THEN @ ELSE get(data, "due_date"),
                 !.status = data.status,
                 !.milestone_id = IF "milestone" \in failed THEN @ ELSE get(data, "milestone")]

\* form.is_valid(): the field errors, the errors of TaskForm.clean and, from
\* _post_clean, the error Task.clean raises on the constructed instance.  The
\* result is the set of error sets the form may end with.
is_valid(T, M, G, project, instance, data) ==
  LET fe == form_field_errors(T, M, G, project, instance, data)
      cleaned == cleaned_data(data, fe)
      ce == form_clean(T, M, project, instance, cleaned)
      row == construct_instance(IF instance = None THEN NewTask ELSE T[instance], data, fe)
      me == clean(T, M, instance, row)
  IN IF me = {} THEN {fe \cup ce} ELSE {fe \cup ce \cup {e} : e \in me}

\* form_valid of TaskCreateView / TaskUpdateView: form.save(commit=False), the
\* project of the view, task.save(), form.save_m2m() (prerequisite_tasks.set,
\* then tags.set, both with the cleaned lists, empty or not), then the new tags.
form_valid(T, M, G, pk, project, created, data) ==
  LET base == IF created THEN NewTask ELSE T[pk]
      row == [construct_instance(base, data, {}) EXCEPT !.project = project]
      saved == save(T, M, pk, row, created, base.milestone_id, base.due_date,
                    milestone_due(M, row.milestone_id))
  IN {[errors |-> IF r.error = "" THEN {} ELSE {Err("__all__", r.error)},
       Task |-> IF r.error = "" THEN [r.Task EXCEPT ![pk].tags = data.tags] ELSE r.Task,
       Milestone |-> saved.Milestone] :
        r \in set(saved.Task, pk, get_prerequisite_tasks(data))}

\* ------------------------------------------------------------------ actions
Request(op, pk, data) == [NoResponse EXCEPT !.op = op, !.task = pk, !.request = data]

\* POST /api/tasks/
ApiCreate(ids, data) ==
  LET fe == field_errors(Task, Milestone, None, data) \cup tag_ids_errors(Tag, data)
      ve == IF fe # {} THEN fe ELSE validate(Task, Milestone, None, data)
      pk == next_pk(Task, ids)
  IN /\ ids \ DOMAIN Task # {}
     /\ \E r \in (IF ve # {} THEN {[errors |-> ve, Task |-> Task, Milestone |-> Milestone]}
                  ELSE create(Task, Milestone, pk, data)) :
          LET tagged == IF r.errors = {}
                        THEN add_new_tags(r.Task, Tag, pk, get_new_tags(data))
                        ELSE [Task |-> r.Task, Tag |-> Tag]
          IN /\ Task' = tagged.Task
             /\ Tag' = tagged.Tag
             /\ Milestone' = r.Milestone
             /\ response' = [Request("api_create", pk, data) EXCEPT !.errors = r.errors]
     /\ UNCHANGED <<dfs, requests>>

\* PATCH /api/tasks/<pk>/ from the serializer on:
\* TaskSerializer(instance, data, partial=True).is_valid(), then save().
\* The response remembers the milestone the task had and that milestone's date.
ApiUpdate(pk, data) ==
  LET fe == field_errors(Task, Milestone, pk, data) \cup tag_ids_errors(Tag, data)
      ve == IF fe # {} THEN fe ELSE validate(Task, Milestone, pk, data)
  IN /\ pk \in DOMAIN Task
     /\ \E r \in (IF ve # {} THEN {[errors |-> ve, Task |-> Task, Milestone |-> Milestone]}
                  ELSE update(Task, Milestone, pk, data)) :
          LET tagged == IF r.errors = {}
                        THEN add_new_tags(r.Task, Tag, pk, get_new_tags(data))
                        ELSE [Task |-> r.Task, Tag |-> Tag]
          IN /\ Task' = tagged.Task
             /\ Tag' = tagged.Tag
             /\ Milestone' = r.Milestone
             /\ response' = [Request("api_update", pk, data) EXCEPT
                               !.errors = r.errors,
                               !.ms = Task[pk].milestone_id,
                               !.value = milestone_due(Milestone, Task[pk].milestone_id)]
     /\ UNCHANGED <<dfs, requests>>

\* TaskDeleteView: task.delete().  The response remembers the milestone the
\* task had and that milestone's date.
TaskDelete(pk) ==
  /\ pk \in DOMAIN Task
  /\ Task' = delete(Task, Milestone, pk).Task
  /\ Milestone' = delete(Task, Milestone, pk).Milestone
  /\ response' = [Request("delete", pk, NoData) EXCEPT
                    !.ms = Task[pk].milestone_id,
                    !.value = milestone_due(Milestone, Task[pk].milestone_id)]
  /\ UNCHANGED <<dfs, Tag, requests>>

\* TaskCreateView: a POST of the task form of the project named in the URL
\* (carried here as data.project).
FormCreate(ids, data) ==
  LET pk == next_pk(Task, ids)
  IN /\ ids \ DOMAIN Task # {}
     /\ \E errors \in is_valid(Task, Milestone, Tag, data.project, None, data) :
          \E r \in (IF errors # {}
                    THEN {[errors |-> errors, Task |-> Task, Milestone |-> Milestone]}
                    ELSE form_valid(Task, Milestone, Tag, pk, data.project, TRUE, data)) :
            LET tagged == IF r.errors = {}
                          THEN add_new_tags(r.Task, Tag, pk, get_new_tags(data))
                          ELSE [Task |-> r.Task, Tag |-> Tag]
            IN /\ Task' = tagged.Task
               /\ Tag' = tagged.Tag
               /\ Milestone' = r.Milestone
               /\ response' = [Request("form_create", pk, data) EXCEPT !.errors = r.errors]
     /\ UNCHANGED <<dfs, requests>>

\* TaskUpdateView: a POST of the task form of an existing task; the project is
\* the task's own.
FormUpdate(pk, data) ==
  /\ pk \in DOMAIN Task
  /\ \E errors \in is_valid(Task, Milestone, Tag, Task[pk].project, pk, data) :
       \E r \in (IF errors # {}
                 THEN {[errors |-> errors, Task |-> Task, Milestone |-> Milestone]}
                 ELSE form_valid(Task, Milestone, Tag, pk, Task[pk].project, FALSE, data)) :
         LET tagged == IF r.errors = {}
                       THEN add_new_tags(r.Task, Tag, pk, get_new_tags(data))
                       ELSE [Task |-> r.Task, Tag |-> Tag]
         IN /\ Task' = tagged.Task
            /\ Tag' = tagged.Tag
            /\ Milestone' = r.Milestone
            /\ response' = [Request("form_update", pk, data) EXCEPT
                              !.errors = r.errors,
                              !.ms = Task[pk].milestone_id,
                              !.value = milestone_due(Milestone, Task[pk].milestone_id)]
  /\ UNCHANGED <<dfs, requests>>

\* Variant: the milestone form offers the unassigned tasks of every project.
milestone_form_any_project(T, project, instance, due_date, tasks) ==
  LET queryset == {t \in DOMAIN T : T[t].milestone_id = None}
                  \cup (IF instance = None THEN {} ELSE tasks_of(T, instance))
  IN IF ~ (tasks \subseteq queryset) THEN {Err("tasks", "invalid_choice")}
     ELSE IF tasks # {} /\ due_date < Max({T[t].due_date : t \in tasks})
     THEN {Err("__all__", "target_before_tasks")}
     ELSE {}

\* MilestoneForm.__init__ and clean: the tasks offered are the project's tasks
\* without a milestone and, on an update, the milestone's own tasks; the target
\* date may not be earlier than the latest due date of the chosen tasks.
milestone_form_errors(T, project, instance, due_date, tasks) ==
  LET queryset == {t \in DOMAIN T : T[t].project = project /\ T[t].milestone_id = None}
                  \cup (IF instance = None THEN {} ELSE tasks_of(T, instance))
  IN IF ~ (tasks \subseteq queryset) THEN {Err("tasks", "invalid_choice")}
     ELSE IF tasks # {} /\ due_date < Max({T[t].due_date : t \in tasks})
     THEN {Err("__all__", "target_before_tasks")}
     ELSE {}

\* MilestoneForm.save: the milestone row, then two bulk updates of Task.milestone
\* (tasks no longer chosen, tasks chosen); bulk updates send no signal.
milestone_form_save(T, M, pk, project, due_date, tasks) ==
  [Milestone |-> Put(M, pk, [project |-> project, due_date |-> due_date]),
   Task |-> [t \in DOMAIN T |->
               IF t \in tasks THEN [T[t] EXCEPT !.milestone_id = pk]
               ELSE IF T[t].milestone_id = pk THEN [T[t] EXCEPT !.milestone_id = None]
               ELSE T[t]]]

\* MilestoneCreateView: the milestone form of the project named in the URL.
MilestoneFormCreate(ids, project, due_date, tasks) ==
  LET pk == Min(ids \ DOMAIN Milestone)
      errors == milestone_form_errors(Task, project, None, due_date, tasks)
      saved == milestone_form_save(Task, Milestone, pk, project, due_date, tasks)
  IN /\ ids \ DOMAIN Milestone # {}
     /\ Milestone' = IF errors = {} THEN saved.Milestone ELSE Milestone
     /\ Task' = IF errors = {} THEN saved.Task ELSE Task
     /\ response' = [NoResponse EXCEPT !.op = "milestone_form_create", !.ms = pk,
                                       !.errors = errors]
     /\ UNCHANGED <<dfs, Tag, requests>>

\* MilestoneUpdateView: the milestone form of an existing milestone.
MilestoneFormUpdate(pk, due_date, tasks) ==
  LET errors == milestone_form_errors(Task, Milestone[pk].project, pk, due_date, tasks)
      saved == milestone_form_save(Task, Milestone, pk, Milestone[pk].project, due_date, tasks)
  IN /\ pk \in DOMAIN Milestone
     /\ Milestone' = IF errors = {} THEN saved.Milestone ELSE Milestone
     /\ Task' = IF errors = {} THEN saved.Task ELSE Task
     /\ response' = [NoResponse EXCEPT !.op = "milestone_form_update", !.ms = pk,
                                       !.errors = errors]
     /\ UNCHANGED <<dfs, Tag, requests>>

\* Variant: the tasks of the milestone go with it (on_delete=CASCADE).
milestone_delete_cascade(T, M, pk) ==
  [Task |-> [t \in {x \in DOMAIN T : T[x].milestone_id # pk} |->
               [T[t] EXCEPT !.prerequisite_tasks = @ \ tasks_of(T, pk)]],
   Milestone |-> Drop(M, pk)]

\* Milestone.delete: on_delete=SET_NULL clears Task.milestone with a bulk update,
\* then the milestone row goes.
milestone_delete(T, M, pk) ==
  [Task |-> [t \in DOMAIN T |->
               IF T[t].milestone_id = pk THEN [T[t] EXCEPT !.milestone_id = None] ELSE T[t]],
   Milestone |-> Drop(M, pk)]

\* MilestoneDeleteView: milestone.delete().  The response remembers how many
\* tasks the milestone had.
MilestoneDelete(pk) ==
  /\ pk \in DOMAIN Milestone
  /\ Task' = milestone_delete(Task, Milestone, pk).Task
  /\ Milestone' = milestone_delete(Task, Milestone, pk).Milestone
  /\ response' = [NoResponse EXCEPT !.op = "milestone_delete", !.ms = pk,
                                    !.value = Cardinality(tasks_of(Task, pk))]
  /\ UNCHANGED <<dfs, Tag, requests>>

PrerequisiteData(objs) ==
  [NoData EXCEPT !.keys = {"prerequisite_tasks"}, !.prerequisite_tasks = objs]

\* task.prerequisite_tasks.add(*objs) on the relation itself
PrerequisiteAdd(pk, objs) ==
  /\ pk \in DOMAIN Task
  /\ objs \subseteq DOMAIN Task
  /\ \E r \in add(Task, pk, objs) :
       /\ Task' = r.Task
       /\ response' = [Request("add", pk, PrerequisiteData(objs)) EXCEPT
                         !.errors = IF r.error = "" THEN {} ELSE {Err("__all__", r.error)}]
  /\ UNCHANGED <<Milestone, dfs, Tag, requests>>

\* task.dependents.add(*objs) on the reverse side of the relation
DependentsAdd(pk, objs) ==
  /\ pk \in DOMAIN Task
  /\ objs \subseteq DOMAIN Task
  /\ \E r \in add_dependents(Task, pk, objs) :
       /\ Task' = r.Task
       /\ response' = [Request("dependents_add", pk, PrerequisiteData(objs)) EXCEPT
                         !.errors = IF r.error = "" THEN {} ELSE {Err("__all__", r.error)}]
  /\ UNCHANGED <<Milestone, dfs, Tag, requests>>

\* task.prerequisite_tasks.set(objs) on the relation itself
PrerequisiteSet(pk, objs) ==
  /\ pk \in DOMAIN Task
  /\ objs \subseteq DOMAIN Task
  /\ \E r \in set(Task, pk, objs) :
       /\ Task' = r.Task
       /\ response' = [Request("set", pk, PrerequisiteData(objs)) EXCEPT
                         !.errors = IF r.error = "" THEN {} ELSE {Err("__all__", r.error)}]
  /\ UNCHANGED <<Milestone, dfs, Tag, requests>>

\* task.prerequisite_tasks.remove(*objs) on the relation itself
PrerequisiteRemove(pk, objs) ==
  /\ pk \in DOMAIN Task
  /\ objs \subseteq DOMAIN Task
  /\ Task' = remove(Task, pk, objs)
  /\ response' = Request("remove", pk, PrerequisiteData(objs))
  /\ UNCHANGED <<Milestone, dfs, Tag, requests>>

\* ------------------------------------------ the prerequisite graph of a project
\* Requests that write the prerequisite graph of project 1: a create names the
\* project, a due date and any prerequisite pks; an update is a partial update
\* that carries a prerequisite list or nothing.
GraphCreateData ==
  {[NoData EXCEPT !.keys = {"project", "due_date"} \cup K, !.project = 1, !.due_date = 1,
                  !.prerequisite_tasks = IF "prerequisite_tasks" \in K THEN P ELSE {}] :
     K \in {{}, {"prerequisite_tasks"}}, P \in SUBSET TaskIds}

GraphUpdateData ==
  {[NoData EXCEPT !.keys = K,
                  !.prerequisite_tasks = IF "prerequisite_tasks" \in K THEN P ELSE {}] :
     K \in {{}, {"prerequisite_tasks"}}, P \in SUBSET TaskIds}

Init ==
  /\ Task = <<>>
  /\ Milestone = <<>>
  /\ response = NoResponse
  /\ dfs = DfsIdle
  /\ Tag = <<>>
  /\ requests = <<>>

Next ==
  \/ \E data \in GraphCreateData : ApiCreate(TaskIds, data)
  \/ \E pk \in TaskIds, data \in GraphUpdateData : ApiUpdate(pk, data)
  \/ \E pk \in TaskIds : TaskDelete(pk)
  \/ \E pk \in TaskIds, objs \in SUBSET TaskIds : PrerequisiteAdd(pk, objs)
  \/ \E pk \in TaskIds, objs \in SUBSET TaskIds : PrerequisiteSet(pk, objs)
  \/ \E pk \in TaskIds, objs \in SUBSET TaskIds : PrerequisiteRemove(pk, objs)

Spec == Init /\ [][Next]_vars

\* ------------------------------------------- task writes that break rules
MaxValTasks == 2
MaxValDate == 2

ValTaskIds == 1 .. MaxValTasks
ValDates == 1 .. MaxValDate

\* Plain tasks of project 1 are created, then written again through the API
\* (partial updates) and through the task form (full posts) with any start
\* date, due date, single prerequisite and milestone; the one milestone belongs
\* to project 2, so choosing it always breaks the milestone rule.
ValidationCreateData ==
  {[NoData EXCEPT !.keys = {"project", "due_date"}, !.project = 1, !.due_date = d] :
     d \in ValDates}

ValidationUpdateData ==
  {[NoData EXCEPT !.keys = K,
                  !.start_date = IF "start_date" \in K THEN s ELSE None,
                  !.due_date = IF "due_date" \in K THEN d ELSE None,
                  !.milestone = IF "milestone" \in K THEN 1 ELSE None,
                  !.prerequisite_tasks = IF "prerequisite_tasks" \in K THEN P ELSE {}] :
     K \in SUBSET {"start_date", "due_date", "milestone", "prerequisite_tasks"},
     s \in ValDates, d \in ValDates, P \in {{t} : t \in ValTaskIds}}

ValidationFormData ==
  {data \in ValidationUpdateData : "due_date" \in data.keys}

NextValidation ==
  \/ MilestoneFormCreate({1}, 2, MaxValDate, {})
  \/ \E data \in ValidationCreateData : ApiCreate(ValTaskIds, data)
  \/ \E data \in ValidationCreateData : FormCreate(ValTaskIds, data)
  \/ \E pk \in ValTaskIds, data \in ValidationUpdateData : ApiUpdate(pk, data)
  \/ \E pk \in ValTaskIds, data \in ValidationFormData : FormUpdate(pk, data)

SpecValidation == Init /\ [][NextValidation]_vars

\* ------------------------------------------- prerequisites and two projects
MaxPrjTasks == 3

PrjTaskIds == 1 .. MaxPrjTasks

\* Tasks are created in either project with any prerequisite list; a partial
\* API update carries a project, a prerequisite list, both or neither; a form
\* post carries the due date and a prerequisite list.
ProjectCreateData ==
  {[NoData EXCEPT !.keys = {"project", "due_date"} \cup K, !.project = p, !.due_date = 1,
                  !.prerequisite_tasks = IF "prerequisite_tasks" \in K THEN P ELSE {}] :
     K \in {{}, {"prerequisite_tasks"}}, p \in Projects, P \in (SUBSET PrjTaskIds) \ {{}}}

ProjectUpdateData ==
  {[NoData EXCEPT !.keys = K,
                  !.project = IF "project" \in K THEN p ELSE None,
                  !.prerequisite_tasks = IF "prerequisite_tasks" \in K THEN P ELSE {}] :
     K \in SUBSET {"project", "prerequisite_tasks"}, p \in Projects,
     P \in (SUBSET PrjTaskIds) \ {{}}}

ProjectFormData ==
  {[NoData EXCEPT !.keys = {"due_date"} \cup K, !.due_date = 1,
                  !.prerequisite_tasks = IF "prerequisite_tasks" \in K THEN P ELSE {}] :
     K \in {{}, {"prerequisite_tasks"}}, P \in (SUBSET PrjTaskIds) \ {{}}}

NextProjects ==
  \/ \E data \in ProjectCreateData : ApiCreate(PrjTaskIds, data)
  \/ \E pk \in PrjTaskIds, data \in ProjectUpdateData : ApiUpdate(pk, data)
  \/ \E pk \in PrjTaskIds, data \in ProjectFormData : FormUpdate(pk, data)

SpecProjects == Init /\ [][NextProjects]_vars

\* --------------------------------------------- milestones and two projects
MaxMpTasks == 2
MaxMpMilestones == 2

MpTaskIds == 1 .. MaxMpTasks
MpMilestoneIds == 1 .. MaxMpMilestones

\* Tasks and milestones are created in either project; a task write names a
\* milestone (null on an update to unassign), a partial API update may also
\* name a project; the milestone form chooses any set of tasks.
MpCreateData ==
  {[NoData EXCEPT !.keys = {"project", "due_date"} \cup K, !.project = p, !.due_date = 1,
                  !.milestone = IF "milestone" \in K THEN ms ELSE None] :
     K \in {{}, {"milestone"}}, p \in Projects, ms \in MpMilestoneIds}

MpUpdateData ==
  {[NoData EXCEPT !.keys = K,
                  !.project = IF "project" \in K THEN p ELSE None,
                  !.milestone = IF "milestone" \in K THEN ms ELSE None] :
     K \in SUBSET {"project", "milestone"}, p \in Projects,
     ms \in MpMilestoneIds \cup {None}}

MpFormData ==
  {[NoData EXCEPT !.keys = {"due_date"} \cup K, !.due_date = 1,
                  !.milestone = IF "milestone" \in K THEN ms ELSE None] :
     K \in {{}, {"milestone"}}, ms \in MpMilestoneIds}

NextMilestoneProject ==
  \/ \E data \in MpCreateData : ApiCreate(MpTaskIds, data)
  \/ \E data \in MpCreateData : FormCreate(MpTaskIds, data)
  \/ \E pk \in MpTaskIds, data \in MpUpdateData : ApiUpdate(pk, data)
  \/ \E pk \in MpTaskIds, data \in MpFormData : FormUpdate(pk, data)
  \/ \E project \in Projects, tasks \in SUBSET MpTaskIds :
       MilestoneFormCreate(MpMilestoneIds, project, 1, tasks)
  \/ \E pk \in MpMilestoneIds, tasks \in SUBSET MpTaskIds : MilestoneFormUpdate(pk, 1, tasks)
  \/ \E pk \in MpMilestoneIds : MilestoneDelete(pk)

SpecMilestoneProject == Init /\ [][NextMilestoneProject]_vars

\* ------------------------------------------------- deleting a milestone
MaxDelTasks == 2
MaxDelMilestones == 2

\* Any project 1 with up to MaxDelTasks tasks and up to MaxDelMilestones
\* milestones: each task in any status, with either due date, in any milestone
\* or in none, with or without the project's one tag, and with any earlier
\* tasks as its prerequisites.
InitMilestoneDelete ==
  /\ \E n \in 0 .. MaxDelTasks, m \in 0 .. MaxDelMilestones :
       /\ Milestone \in [1 .. m -> {[project |-> 1, due_date |-> d] : d \in Dates}]
       /\ Task \in {T \in [1 .. n ->
                             {[NewTask EXCEPT !.project = 1, !.due_date = d, !.status = st,
                                               !.milestone_id = ms, !.tags = g,
                                               !.prerequisite_tasks = P] :
                                d \in Dates, st \in STATUS_CHOICES, ms \in 0 .. m,
                                g \in SUBSET {1}, P \in SUBSET (1 .. n)}] :
                      \A t \in 1 .. n : \A x \in T[t].prerequisite_tasks : x < t}
  /\ response = NoResponse
  /\ dfs = DfsIdle
  /\ Tag = <<[name |-> "tag", project |-> 1]>>
  /\ requests = <<>>

NextMilestoneDelete ==
  \E pk \in 1 .. MaxDelMilestones : MilestoneDelete(pk)

SpecMilestoneDelete == InitMilestoneDelete /\ [][NextMilestoneDelete]_vars

\* ---------------------------------------------------- tags and two projects
MaxTagTasks == 2
MaxTags == 2

TagTaskIds == 1 .. MaxTagTasks
TagIds == 1 .. MaxTags
TagNames == {"a"}

\* Tasks are created in either project; a write may name stored tags by pk
\* (tag_ids on the API, tags on the form) and may name new tags.
TagCreateData ==
  {[NoData EXCEPT !.keys = {"project", "due_date"} \cup K, !.project = p, !.due_date = 1,
                  !.tag_ids = IF "tag_ids" \in K THEN g ELSE {},
                  !.new_tags = IF "new_tags" \in K THEN TagNames ELSE {}] :
     K \in SUBSET {"tag_ids", "new_tags"}, p \in Projects, g \in (SUBSET TagIds) \ {{}}}

TagUpdateData ==
  {[NoData EXCEPT !.keys = K,
                  !.tag_ids = IF "tag_ids" \in K THEN g ELSE {},
                  !.new_tags = IF "new_tags" \in K THEN TagNames ELSE {}] :
     K \in SUBSET {"tag_ids", "new_tags"}, g \in (SUBSET TagIds) \ {{}}}

TagFormCreateData ==
  {[NoData EXCEPT !.keys = {"project", "due_date"} \cup K, !.project = p, !.due_date = 1,
                  !.tags = IF "tags" \in K THEN g ELSE {},
                  !.new_tags = IF "new_tags" \in K THEN TagNames ELSE {}] :
     K \in SUBSET {"tags", "new_tags"}, p \in Projects, g \in (SUBSET TagIds) \ {{}}}

TagFormUpdateData ==
  {[NoData EXCEPT !.keys = {"due_date"} \cup K, !.due_date = 1,
                  !.tags = IF "tags" \in K THEN g ELSE {},
                  !.new_tags = IF "new_tags" \in K THEN TagNames ELSE {}] :
     K \in SUBSET {"tags", "new_tags"}, g \in (SUBSET TagIds) \ {{}}}

NextTags ==
  \/ \E data \in TagCreateData : ApiCreate(TagTaskIds, data)
  \/ \E pk \in TagTaskIds, data \in TagUpdateData : ApiUpdate(pk, data)
  \/ \E data \in TagFormCreateData : FormCreate(TagTaskIds, data)
  \/ \E pk \in TagTaskIds, data \in TagFormUpdateData : FormUpdate(pk, data)

SpecTags == Init /\ [][NextTags]_vars

\* ------------------------------------------------ milestone dates of a project
MsTaskIds == 1 .. MaxMsTasks
MilestoneIds == 1 .. MaxMilestones

\* MilestoneCreateView with no task selected: MilestoneForm.save stores the
\* milestone with the view's project and the target date of the form.
MilestoneCreate(ids, due_date) ==
  LET pk == Min(ids \ DOMAIN Milestone)
  IN /\ ids \ DOMAIN Milestone # {}
     /\ Milestone' = Put(Milestone, pk, [project |-> 1, due_date |-> due_date])
     /\ response' = [NoResponse EXCEPT !.op = "milestone_create", !.ms = pk]
     /\ UNCHANGED <<Task, dfs, Tag, requests>>

\* Requests that place tasks of project 1 in milestones: a create names the
\* project, a due date and possibly a milestone; a partial update carries a due
\* date, a milestone (null to unassign), both or neither.
MilestoneCreateData ==
  {[NoData EXCEPT !.keys = {"project", "due_date"} \cup K, !.project = 1, !.due_date = d,
                  !.milestone = IF "milestone" \in K THEN ms ELSE None] :
     K \in {{}, {"milestone"}}, d \in Dates, ms \in MilestoneIds}

MilestoneUpdateData ==
  {[NoData EXCEPT !.keys = K,
                  !.due_date = IF "due_date" \in K THEN d ELSE None,
                  !.milestone = IF "milestone" \in K THEN ms ELSE None] :
     K \in SUBSET {"due_date", "milestone"}, d \in Dates, ms \in MilestoneIds \cup {None}}

NextMilestone ==
  \/ \E due_date \in Dates : MilestoneCreate(MilestoneIds, due_date)
  \/ \E data \in MilestoneCreateData : ApiCreate(MsTaskIds, data)
  \/ \E pk \in MsTaskIds, data \in MilestoneUpdateData : ApiUpdate(pk, data)
  \/ \E pk \in MsTaskIds : TaskDelete(pk)

SpecMilestone == Init /\ [][NextMilestone]_vars

\* -------------------------------------------- recalculation called directly
\* PATCH /api/milestones/<pk>/ with a due date that is not in the past:
\* MilestoneSerializer.update assigns it, runs full_clean and saves.
MilestoneApiUpdate(pk, due_date) ==
  /\ pk \in DOMAIN Milestone
  /\ Milestone' = [Milestone EXCEPT ![pk].due_date = due_date]
  /\ response' = [NoResponse EXCEPT !.op = "milestone_update", !.ms = pk]
  /\ UNCHANGED <<Task, dfs, Tag, requests>>

\* milestone.recalculate_and_save_date() on a Milestone object whose in-memory
\* due date is self_due_date (the stored one, or an older one if the object was
\* loaded earlier).  The response keeps the object's due date after the call
\* and the number of saves made through the object.
Recalculate(ms, self_due_date) ==
  LET r == recalculate_and_save_date(Task, Milestone, ms, self_due_date)
  IN /\ ms \in DOMAIN Milestone
     /\ Milestone' = r.Milestone
     /\ response' = [NoResponse EXCEPT
                       !.op = "recalculate", !.ms = ms, !.writes = r.writes,
                       !.value = IF max_date(Task, ms) = None THEN self_due_date
                                 ELSE max_date(Task, ms)]
     /\ UNCHANGED <<Task, dfs, Tag, requests>>

\* The same object is recalculated again, right after the previous call.
RecalculateAgain ==
  LET r == recalculate_and_save_date(Task, Milestone, response.ms, response.value)
  IN /\ response.op \in {"recalculate", "recalculate_again"}
     /\ Milestone' = r.Milestone
     /\ response' = [response EXCEPT
                       !.op = "recalculate_again", !.writes = @ + r.writes,
                       !.value = IF max_date(Task, response.ms) = None THEN @
                                 ELSE max_date(Task, response.ms)]
     /\ UNCHANGED <<Task, dfs, Tag, requests>>

NextRecalculate ==
  \/ \E due_date \in Dates : MilestoneCreate(MilestoneIds, due_date)
  \/ \E data \in MilestoneCreateData : ApiCreate(MsTaskIds, data)
  \/ \E pk \in MsTaskIds, data \in MilestoneUpdateData : ApiUpdate(pk, data)
  \/ \E pk \in MsTaskIds : TaskDelete(pk)
  \/ \E pk \in MilestoneIds, due_date \in Dates : MilestoneApiUpdate(pk, due_date)
  \/ \E ms \in MilestoneIds, self_due_date \in Dates : Recalculate(ms, self_due_date)
  \/ RecalculateAgain

SpecRecalculate == Init /\ [][NextRecalculate]_vars

\* ------------------------------------------------------- project progress
\* Progress values are kept in hundredths of a percent: 3333 is 33.33.
\* Variant: the quotient is cut after two decimals.
truncate2(num, den) == (100 * num) \div den

\* round(num / den, 2): the nearest hundredth, an exact half going to the even one.
round2(num, den) ==
  LET q == (100 * num) \div den
      r == (100 * num) % den
  IN IF 2 * r < den THEN q
     ELSE IF 2 * r > den THEN q + 1
     ELSE IF q % 2 = 0 THEN q ELSE q + 1

\* Variant: only tasks still to do keep a milestone from being complete.
is_complete_unless_todo(T, ms) == ~ \E t \in tasks_of(T, ms) : T[t].status = "todo"

\* Variant: a milestone needs a task to be complete.
is_complete_with_tasks(T, ms) ==
  /\ tasks_of(T, ms) # {}
  /\ ~ \E t \in tasks_of(T, ms) : T[t].status # "done"

\* Milestone.is_complete: not self.tasks.exclude(status='done').exists()
is_complete(T, ms) == ~ \E t \in tasks_of(T, ms) : T[t].status # "done"

\* Variant: stray tasks are left out of the figure.
progress_without_strays(T, M, project) ==
  LET tasks == {t \in DOMAIN T : T[t].project = project}
      milestones == {m \in DOMAIN M : M[m].project = project}
      completed_milestones == Cardinality({m \in milestones : is_complete(T, m)})
      done == Cardinality({t \in tasks : T[t].status = "done"})
  IN IF tasks = {} THEN 0
     ELSE IF milestones # {}
     THEN (IF \A t \in tasks : T[t].status = "done" THEN 10000
           ELSE round2(completed_milestones * 100, Cardinality(milestones)))
     ELSE round2(done * 100, Cardinality(tasks))

\* The weighted formula of _calculate_progress_value for a project with tasks
\* and milestones: the share of complete milestones, weighted 90 to 10 against
\* the share of done stray tasks when there are stray tasks, capped and rounded.
weighted_progress(T, M, project) ==
  LET tasks == {t \in DOMAIN T : T[t].project = project}
      milestones == {m \in DOMAIN M : M[m].project = project}
      completed_milestones == Cardinality({m \in milestones : is_complete(T, m)})
      stray == {t \in tasks : T[t].milestone_id = None}
      total_stray_tasks == Cardinality(stray)
      done_stray_tasks == Cardinality({t \in stray : T[t].status = "done"})
      \* progress as the fraction num / den of a percent
      num == IF total_stray_tasks = 0
             THEN completed_milestones * 100
             ELSE completed_milestones * 90 * total_stray_tasks
                  + done_stray_tasks * 10 * Cardinality(milestones)
      den == IF total_stray_tasks = 0
             THEN Cardinality(milestones)
             ELSE Cardinality(milestones) * total_stray_tasks
  IN IF num > 100 * den THEN 10000 ELSE round2(num, den)

\* Project._calculate_progress_value
_calculate_progress_value(T, M, project) ==
  LET tasks == {t \in DOMAIN T : T[t].project = project}
      total_tasks == Cardinality(tasks)
      milestones == {m \in DOMAIN M : M[m].project = project}
      done == Cardinality({t \in tasks : T[t].status = "done"})
  IN IF total_tasks = 0 THEN 0
     ELSE IF milestones # {}
     THEN (IF ~ \E t \in tasks : T[t].status # "done" THEN 10000
           ELSE weighted_progress(T, M, project))
     ELSE round2(done * 100, total_tasks)

\* project.progress is read.
ReadProgress ==
  /\ response' = [NoResponse EXCEPT
                    !.op = "progress",
                    !.value = _calculate_progress_value(Task, Milestone, 1)]
  /\ UNCHANGED <<Task, Milestone, dfs, Tag, requests>>

\* milestone.is_complete is read (1: complete, 0: not).
ReadIsComplete(ms) ==
  /\ ms \in DOMAIN Milestone
  /\ response' = [NoResponse EXCEPT
                    !.op = "is_complete", !.ms = ms,
                    !.value = IF is_complete(Task, ms) THEN 1 ELSE 0]
  /\ UNCHANGED <<Task, Milestone, dfs, Tag, requests>>

\* Any project 1 with up to MaxProgTasks tasks, each in any status and in any
\* of up to MaxProgMilestones milestones or in none.
InitProgress ==
  /\ \E n \in 0 .. MaxProgTasks, m \in 0 .. MaxProgMilestones :
       /\ Milestone \in [1 .. m -> {[project |-> 1, due_date |-> 1]}]
       /\ Task \in [1 .. n ->
                      {[NewTask EXCEPT !.project = 1, !.due_date = 1,
                                       !.status = st, !.milestone_id = ms] :
                         st \in STATUS_CHOICES, ms \in 0 .. m}]
  /\ response = NoResponse
  /\ dfs = DfsIdle
  /\ Tag = <<>>
  /\ requests = <<>>

NextProgress ==
  \/ ReadProgress
  \/ \E ms \in 1 .. MaxProgMilestones : ReadIsComplete(ms)

SpecProgress == InitProgress /\ [][NextProgress]_vars

\* ------------------------------------------------ has_cycle, call by call
\* The recursion of Task.has_cycle unfolded: dfs.stack holds one frame per
\* active call that is inside its for loop, with the grandparents it has still
\* to visit; dfs.visited is the set shared by all the calls.  The loop's order
\* is the queryset's (due date, priority), so any pending grandparent may be next.
DfsNodes == 1 .. MaxDfsNodes

\* The first call, has_cycle(parent, target_id) with visited = None.
hc_start(parent, target_id) ==
  /\ dfs.result = "idle"
  /\ dfs' =
       IF parent = target_id
       THEN [DfsIdle EXCEPT !.result = "true", !.calls = 1,
                            !.expanded = [n \in DOMAIN Task |-> 0],
                            !.parent = parent, !.target_id = target_id]
       ELSE [stack |-> <<[node |-> parent, pending |-> grandparents(Task, parent)]>>,
             visited |-> {parent},
             expanded |-> [n \in DOMAIN Task |-> IF n = parent THEN 1 ELSE 0],
             calls |-> 1, result |-> "running",
             parent |-> parent, target_id |-> target_id]
  /\ UNCHANGED <<Task, Milestone, response, Tag, requests>>

\* The loop of the innermost call takes its next grandparent and calls
\* has_cycle on it: a hit returns True through every caller, a visited task
\* returns False at once, any other task is marked and expanded.
hc_call(grandparent) ==
  LET top == dfs.stack[Len(dfs.stack)]
      rest == [dfs.stack EXCEPT ![Len(dfs.stack)].pending = @ \ {grandparent}]
  IN /\ dfs.result = "running"
     /\ dfs.stack # <<>>
     /\ grandparent \in top.pending
     /\ dfs' =
          IF grandparent = dfs.target_id
          THEN [dfs EXCEPT !.stack = <<>>, !.result = "true", !.calls = @ + 1]
          ELSE IF grandparent \in dfs.visited
          THEN [dfs EXCEPT !.stack = rest, !.calls = @ + 1]
          ELSE [dfs EXCEPT
                  !.stack = Append(rest, [node |-> grandparent,
                                          pending |-> grandparents(Task, grandparent)]),
                  !.visited = @ \cup {grandparent},
                  !.expanded[grandparent] = @ + 1,
                  !.calls = @ + 1]
     /\ UNCHANGED <<Task, Milestone, response, Tag, requests>>

\* The loop of the innermost call is exhausted: it returns False to its caller.
hc_return ==
  /\ dfs.result = "running"
  /\ dfs.stack # <<>>
  /\ dfs.stack[Len(dfs.stack)].pending = {}
  /\ dfs' = [dfs EXCEPT !.stack = SubSeq(dfs.stack, 1, Len(dfs.stack) - 1),
                        !.result = IF Len(dfs.stack) = 1 THEN "false" ELSE "running"]
  /\ UNCHANGED <<Task, Milestone, response, Tag, requests>>

\* Any prerequisite relation over the tasks 1..MaxDfsNodes with at most
\* MaxDfsEdges rows, self references and cycles included (the relation is not a
\* storage constraint: concurrent writers and the dependents side can store them).
DfsGraphs ==
  {g \in [DfsNodes -> SUBSET DfsNodes] :
     Cardinality({e \in DfsNodes \X DfsNodes : e[2] \in g[e[1]]}) <= MaxDfsEdges}

InitHasCycle ==
  /\ Task \in {[n \in DfsNodes |-> [NewTask EXCEPT !.project = 1, !.due_date = 1,
                                                   !.prerequisite_tasks = g[n]]] :
                 g \in DfsGraphs}
  /\ Milestone = <<>>
  /\ response = NoResponse
  /\ dfs = DfsIdle
  /\ Tag = <<>>
  /\ requests = <<>>

NextHasCycle ==
  \/ \E parent \in DfsNodes, target_id \in DfsNodes \cup {None} : hc_start(parent, target_id)
  \/ \E grandparent \in DfsNodes : hc_call(grandparent)
  \/ hc_return

SpecHasCycle == InitHasCycle /\ [][NextHasCycle]_vars

\* ----------------------------------------------------- graph vocabulary
\* The prerequisite edges: <<t, p>> when p is a prerequisite of t.
Edges(T) == {<<t, p>> \in (DOMAIN T) \X (DOMAIN T) : p \in T[t].prerequisite_tasks}

RECURSIVE Closure(_, _)
Closure(T, S) ==
  LET S2 == S \cup UNION {T[x].prerequisite_tasks \cap DOMAIN T : x \in S}
  IN IF S2 = S THEN S ELSE Closure(T, S2)

\* The direct and transitive prerequisites of b (one edge or more).
Prerequisites(T, b) == Closure(T, T[b].prerequisite_tasks \cap DOMAIN T)

Acyclic(T) == \A t \in DOMAIN T : t \notin Prerequisites(T, t)

SelfDependencyError == "self_dependency"

CycleError == "cycle"

\* The step just taken was a write of task a's prerequisite relation that
\* proposed the existing tasks objs and nothing else: a partial API update
\* carrying the list, or add/set on the relation itself.
PrerequisiteWrite(ops) ==
  /\ response'.op \in ops
  /\ response'.task \in DOMAIN Task
  /\ response'.request.keys = {"prerequisite_tasks"}
  /\ response'.request.prerequisite_tasks \subseteq DOMAIN Task

C2_Acyclic == Acyclic(Task)

\* C2 witness: a write that added two prerequisites at once was accepted into a
\* graph that holds a chain of two edges.
C2_Witness ==
  /\ response.op \in {"api_update", "add", "set"}
  /\ response.errors = {}
  /\ Cardinality(response.request.prerequisite_tasks) >= 2
  /\ response.task \in DOMAIN Task
  /\ response.request.prerequisite_tasks \subseteq Task[response.task].prerequisite_tasks
  /\ \E p \in Task[response.task].prerequisite_tasks : Task[p].prerequisite_tasks # {}

Reachable(T, c) == Closure(T, {c})

\* C4: has_cycle(c, t) returns, and returns true exactly when t is reachable from
\* c by zero or more prerequisite edges; no task is expanded twice.  Returning is
\* stated as a bound: a running call can always take a step, and the number of
\* calls never exceeds one plus the number of prerequisite rows.
C4_HasCycleIsReachability ==
  /\ dfs.result \in {"true", "false"} =>
       /\ (dfs.result = "true") = (dfs.target_id \in Reachable(Task, dfs.parent))
       /\ (dfs.result = "true") = has_cycle(Task, dfs.parent, dfs.target_id)
  /\ dfs.result # "idle" =>
       /\ \A n \in DOMAIN Task : dfs.expanded[n] <= 1
       /\ dfs.calls <= 1 + Cardinality(Edges(Task))
  /\ dfs.result = "running" => dfs.stack # <<>>

\* C4 witness: a finished call that answered false on a graph holding a cycle,
\* after meeting an already visited task again.
C4_Witness ==
  /\ dfs.result = "false"
  /\ ~Acyclic(Task)
  /\ dfs.calls > 1 + Cardinality(dfs.visited \ {dfs.parent})

\* The milestone's stored due date is the latest due date of the tasks T links to it.
DueIsLatest(T, M, ms) ==
  /\ \A t \in DOMAIN T : T[t].milestone_id = ms => T[t].due_date <= M[ms].due_date
  /\ \E t \in DOMAIN T : T[t].milestone_id = ms /\ T[t].due_date = M[ms].due_date

HasTasks(T, ms) == \E t \in DOMAIN T : T[t].milestone_id = ms

\* C5: after any sequence of task creates, updates (due date, assign, move,
\* unassign) and deletes, every milestone with at least one linked task has the
\* latest due date of its linked tasks as its due date.
C5_MilestoneDueIsLatest ==
  \A ms \in DOMAIN Milestone : HasTasks(Task, ms) => DueIsLatest(Task, Milestone, ms)

\* C5 witness: the task with the latest due date of a milestone was deleted and
\* the milestone fell back to the earlier date of a task it still has.
C5_Witness ==
  /\ response.op = "delete"
  /\ response.ms \in DOMAIN Milestone
  /\ HasTasks(Task, response.ms)
  /\ Milestone[response.ms].due_date < response.value
  /\ DueIsLatest(Task, Milestone, response.ms)

\* A successful update that moved the task from a milestone to a different one.
Moved ==
  /\ response'.op = "api_update"
  /\ response'.errors = {}
  /\ response'.task \in DOMAIN Task
  /\ Task[response'.task].milestone_id # None
  /\ Task'[response'.task].milestone_id # None
  /\ Task'[response'.task].milestone_id # Task[response'.task].milestone_id

\* C6: an update that moves a task from milestone M1 to a different milestone M2
\* leaves M2 with the latest due date of its tasks (at least the moved task's)
\* and M1, if it still has tasks, with the latest due date of those.
C6_MoveRecalculatesBoth ==
  [][Moved =>
       LET t == response'.task
           M1 == Task[t].milestone_id
           M2 == Task'[t].milestone_id
       IN /\ DueIsLatest(Task', Milestone', M2)
          /\ Milestone'[M2].due_date >= Task'[t].due_date
          /\ HasTasks(Task', M1) => DueIsLatest(Task', Milestone', M1)]_vars

\* C6 witness: after a move the old milestone kept a task and its date shrank,
\* while the new milestone holds another task besides the moved one.
C6_Witness ==
  /\ response.op = "api_update"
  /\ response.errors = {}
  /\ response.task \in DOMAIN Task
  /\ response.ms # None
  /\ Task[response.task].milestone_id \notin {None, response.ms}
  /\ response.ms \in DOMAIN Milestone
  /\ HasTasks(Task, response.ms)
  /\ Milestone[response.ms].due_date < response.value
  /\ \E t \in DOMAIN Task : t # response.task
                            /\ Task[t].milestone_id = Task[response.task].milestone_id

TotalTasks == Cardinality(DOMAIN Task)
DoneTasks == Cardinality({t \in DOMAIN Task : Task[t].status = "done"})
StrayTasks == Cardinality({t \in DOMAIN Task : Task[t].milestone_id = None})
DoneStrayTasks ==
  Cardinality({t \in DOMAIN Task : Task[t].milestone_id = None /\ Task[t].status = "done"})
AllMilestones == Cardinality(DOMAIN Milestone)
CompleteMilestones ==
  Cardinality({ms \in DOMAIN Milestone :
                 \A t \in DOMAIN Task : Task[t].milestone_id = ms => Task[t].status = "done"})

\* p hundredths is num / den rounded to two decimals: within half a hundredth of it.
RoundedTo2(p, num, den) ==
  /\ 2 * (p * den - 100 * num) <= den
  /\ 2 * (100 * num - p * den) <= den

\* C8: with no task progress is 0.0; with tasks and no milestone it is
\* done / total * 100 rounded to two decimals, 33.33 for 1 done of 3.
C8_ProgressWithoutMilestones ==
  response.op = "progress" =>
    /\ TotalTasks = 0 => response.value = 0
    /\ (TotalTasks > 0 /\ AllMilestones = 0) =>
         /\ RoundedTo2(response.value, DoneTasks * 100, TotalTasks)
         /\ (DoneTasks = 1 /\ TotalTasks = 3) => response.value = 3333

\* C8 witness: progress read for 1 done task of 3 and no milestone.
C8_Witness ==
  /\ response.op = "progress"
  /\ AllMilestones = 0
  /\ TotalTasks = 3
  /\ DoneTasks = 1
  /\ \E t \in DOMAIN Task : Task[t].status = "in_progress"

\* C9: with milestones and tasks, progress is 100.0 when every task is done;
\* otherwise complete / all milestones * 100 when no task is stray, and that
\* ratio * 90 plus done stray / stray tasks * 10 when some are, never above
\* 100 and rounded to two decimals.
C9_ProgressWithMilestones ==
  (response.op = "progress" /\ TotalTasks > 0 /\ AllMilestones > 0) =>
    /\ DoneTasks = TotalTasks => response.value = 10000
    /\ (DoneTasks < TotalTasks /\ StrayTasks = 0) =>
         RoundedTo2(response.value, CompleteMilestones * 100, AllMilestones)
    /\ (DoneTasks < TotalTasks /\ StrayTasks > 0) =>
         RoundedTo2(response.value,
                    CompleteMilestones * 90 * StrayTasks + DoneStrayTasks * 10 * AllMilestones,
                    AllMilestones * StrayTasks)
    /\ response.value <= 10000

\* C9 witness: one milestone whose only task is done, two stray tasks of which
\* one is done, and a progress of 95.0.
C9_Witness ==
  /\ response.op = "progress"
  /\ AllMilestones = 1
  /\ CompleteMilestones = 1
  /\ TotalTasks = 3
  /\ StrayTasks = 2
  /\ DoneStrayTasks = 1
  /\ response.value = 9500

\* C10: a milestone is complete exactly when every task linked to it is done;
\* one without tasks is complete, one with a task to do or in progress is not.
C10_IsCompleteIffAllDone ==
  \A ms \in DOMAIN Milestone :
    /\ is_complete(Task, ms) <=>
         (\A t \in DOMAIN Task : Task[t].milestone_id = ms => Task[t].status = "done")
    /\ (response.op = "is_complete" /\ response.ms = ms) =>
         /\ ~ HasTasks(Task, ms) => response.value = 1
         /\ (\E t \in DOMAIN Task : /\ Task[t].milestone_id = ms
                                    /\ Task[t].status \in {"todo", "in_progress"})
              => response.value = 0
         /\ response.value = 1 =>
              \A t \in DOMAIN Task : Task[t].milestone_id = ms => Task[t].status = "done"

\* C10 witness: is_complete read as false on a milestone whose tasks are done
\* but for one in progress.
C10_Witness ==
  /\ response.op = "is_complete"
  /\ response.value = 0
  /\ response.ms \in DOMAIN Milestone
  /\ \E t \in DOMAIN Task : Task[t].milestone_id = response.ms /\ Task[t].status = "done"
  /\ \E t \in DOMAIN Task : Task[t].milestone_id = response.ms /\ Task[t].status = "in_progress"
  /\ ~ \E t \in DOMAIN Task : Task[t].milestone_id = response.ms /\ Task[t].status = "todo"

\* ------------------------------------------------ what a task write proposes
TaskWriteOps == {"api_create", "api_update", "form_create", "form_update"}

\* The values a write proposes for the task: a partial API update leaves a
\* field it does not carry as stored, a form post carries every field.
Proposed(T, r) ==
  LET stored == r.op = "api_update" /\ r.task \in DOMAIN T
      d == r.request
  IN [project |-> IF "project" \in d.keys THEN d.project
                  ELSE IF r.task \in DOMAIN T THEN T[r.task].project ELSE None,
      start_date |-> IF stored /\ "start_date" \notin d.keys
                     THEN T[r.task].start_date ELSE get(d, "start_date"),
      due_date |-> IF stored /\ "due_date" \notin d.keys
                   THEN T[r.task].due_date ELSE get(d, "due_date"),
      milestone |-> IF stored /\ "milestone" \notin d.keys
                    THEN T[r.task].milestone_id ELSE get(d, "milestone"),
      prerequisite_tasks |-> IF stored /\ get_prerequisite_tasks(d) = {}
                             THEN T[r.task].prerequisite_tasks
                             ELSE get_prerequisite_tasks(d)]

\* The fields whose rule the proposed values break: the milestone of another
\* project, a start date after the due date, a start date before the latest
\* due date of the prerequisites (tasks other than the task itself).
ViolatedFields(T, M, r) ==
  LET p == Proposed(T, r)
  IN (IF p.milestone \in DOMAIN M /\ M[p.milestone].project # p.project
      THEN {"milestone"} ELSE {})
     \cup (IF p.start_date # None /\ p.due_date # None /\ p.start_date > p.due_date
           THEN {"due_date"} ELSE {})
     \cup (IF p.prerequisite_tasks # {} /\ p.prerequisite_tasks \subseteq DOMAIN T \ {r.task}
              /\ p.start_date # None
              /\ p.start_date < Max({T[x].due_date : x \in p.prerequisite_tasks})
           THEN {"start_date"} ELSE {})

ErrorFields(r) == {e.field : e \in r.errors}

\* C11: a rejected task write, on the form path and on the API path, reports an
\* error under the field of every rule it breaks.  (A rejected write leaves the
\* tables as they were, so the broken rules are read from the current state.)
C11_EveryViolationReported ==
  (response.op \in TaskWriteOps /\ response.errors # {})
    => ViolatedFields(Task, Milestone, response) \subseteq ErrorFields(response)

\* The task form does report every broken rule.
C11_FormReportsEveryViolation ==
  (response.op \in {"form_create", "form_update"} /\ response.errors # {})
    => ViolatedFields(Task, Milestone, response) \subseteq ErrorFields(response)

\* An API write breaking two rules was answered with the error of one.
C11_Witness ==
  /\ response.op \in {"api_create", "api_update"}
  /\ Cardinality(ViolatedFields(Task, Milestone, response)) >= 2
  /\ Cardinality(response.errors) = 1

\* Every prerequisite of every task is a task of the same project.
PrerequisitesInProject(T) ==
  \A t \in DOMAIN T : \A x \in T[t].prerequisite_tasks \cap DOMAIN T :
    T[x].project = T[t].project

\* The proposed prerequisite list names a stored task of another project than
\* the one proposed for the task.
CrossProjectList(T, r) ==
  \E x \in get_prerequisite_tasks(r.request) \cap DOMAIN T :
    T[x].project # Proposed(T, r).project

\* C13: after accepted task writes, a change of the task's project included,
\* every prerequisite of every task is in the task's project; and a write whose
\* prerequisite list names a task of another project is rejected with an error
\* on the prerequisite field.
C13_PrerequisitesSameProject ==
  /\ PrerequisitesInProject(Task)
  /\ (response.op \in TaskWriteOps /\ response.errors # {} /\ CrossProjectList(Task, response))
       => "prerequisite_tasks" \in ErrorFields(response)

\* The part of C13 about the proposed list alone: such a write is not accepted
\* and the error is on the prerequisite field.
C13_CrossProjectListRejected ==
  [][(response'.op \in TaskWriteOps /\ CrossProjectList(Task, response'))
       => (response'.errors # {} /\ "prerequisite_tasks" \in ErrorFields(response')
           /\ Task' = Task)]_vars

\* An accepted change of a task's project left a dependent of the task behind.
C13_Witness ==
  /\ response.op = "api_update"
  /\ response.errors = {}
  /\ "project" \in response.request.keys
  /\ \E t \in DOMAIN Task : response.task \in Task[t].prerequisite_tasks
                             /\ Task[t].project # Task[response.task].project

\* Every milestone reference names a stored milestone of the task's project.
MilestoneInProject(T, M) ==
  \A t \in DOMAIN T :
    T[t].milestone_id # None =>
      (T[t].milestone_id \in DOMAIN M /\ M[T[t].milestone_id].project = T[t].project)

\* The write names a stored milestone of another project than the one proposed
\* for the task.
CrossProjectMilestone(T, M, r) ==
  /\ "milestone" \in r.request.keys
  /\ r.request.milestone \in DOMAIN M
  /\ M[r.request.milestone].project # Proposed(T, r).project

\* C14: after every task or milestone write (task form, API, milestone form,
\* milestone delete) each task's milestone, when set, is a milestone of the
\* task's project; a task write that selects a milestone of another project is
\* rejected with an error on the milestone field and writes nothing.
C14_MilestoneSameProject ==
  [][/\ MilestoneInProject(Task', Milestone')
     /\ (response'.op \in TaskWriteOps /\ CrossProjectMilestone(Task, Milestone, response'))
          => (/\ "milestone" \in ErrorFields(response')
              /\ Task' = Task
              /\ Milestone' = Milestone)]_vars

\* Both kinds of case have happened: a task linked to a milestone of its own
\* project through the milestone form stands next to a rejected task write
\* that chose a milestone of the other project.
C14_Witness ==
  /\ response.op \in TaskWriteOps
  /\ CrossProjectMilestone(Task, Milestone, response)
  /\ "milestone" \in ErrorFields(response)
  /\ \E t \in DOMAIN Task : Task[t].milestone_id # None /\ t # response.task
  /\ Cardinality({Milestone[ms].project : ms \in DOMAIN Milestone}) = 2

\* Task t starts on or after the latest due date of its prerequisites.
FinishToStart(T, t) ==
  (T[t].start_date # None /\ T[t].prerequisite_tasks \cap DOMAIN T # {})
    => T[t].start_date >= Max({T[x].due_date : x \in T[t].prerequisite_tasks \cap DOMAIN T})

\* C15: in every state reached by accepted task writes, every task with a start
\* date and a prerequisite starts on or after the latest due date among its
\* current prerequisites, also after a prerequisite's due date was changed or
\* the prerequisite list was replaced without resending the start date.
C15_FinishToStartInvariant ==
  \A t \in DOMAIN Task : FinishToStart(Task, t)

\* The part of C15 about the written task itself: after an accepted write the
\* task that was written satisfies the rule against its current prerequisites.
C15_WrittenTaskFinishToStart ==
  (response.op \in TaskWriteOps /\ response.errors = {} /\ response.task \in DOMAIN Task)
    => FinishToStart(Task, response.task)

\* An accepted change of a task's due date moved it past the start date of a
\* task that depends on it.
C15_Witness ==
  /\ response.op \in {"api_update", "form_update"}
  /\ response.errors = {}
  /\ "due_date" \in response.request.keys
  /\ \E t \in DOMAIN Task :
       /\ response.task \in Task[t].prerequisite_tasks
       /\ Task[t].start_date # None
       /\ Task[t].start_date < Task[response.task].due_date

\* C16: deleting a milestone deletes no task; each task that was linked to it
\* is still stored with a null milestone and otherwise the same row (dates,
\* status, prerequisites, tags), every other task is stored unchanged, and the
\* other milestones and the tags are as before.
C16_MilestoneDeleteKeepsTasks ==
  [][response'.op = "milestone_delete" =>
       /\ DOMAIN Task' = DOMAIN Task
       /\ \A t \in DOMAIN Task :
            Task'[t] = IF Task[t].milestone_id = response'.ms
                       THEN [Task[t] EXCEPT !.milestone_id = None]
                       ELSE Task[t]
       /\ Milestone' = Drop(Milestone, response'.ms)
       /\ Tag' = Tag]_vars

\* A milestone with one linked task was deleted: of the two tasks stored, one
\* is still in its own milestone and the other, which was the linked one, is
\* stray, done, tagged and still has its prerequisite.
C16_Witness ==
  /\ response.op = "milestone_delete"
  /\ response.ms \notin DOMAIN Milestone
  /\ response.value = 1
  /\ Cardinality(DOMAIN Task) = 2
  /\ \E t \in DOMAIN Task : Task[t].milestone_id = None /\ Task[t].prerequisite_tasks # {}
                             /\ Task[t].tags # {} /\ Task[t].status = "done"
  /\ \E t \in DOMAIN Task : Task[t].milestone_id # None

\* Every tag linked to a task is a stored tag of the task's project.
TagsInProject(T, G) ==
  \A t \in DOMAIN T : \A g \in T[t].tags : g \in DOMAIN G /\ G[g].project = T[t].project

\* C17: in every state reached by accepted task writes (form: existing tags and
\* new tag names; API: tag_ids and new_tags) every tag linked to a task belongs
\* to the task's project.
C17_TagsSameProject == TagsInProject(Task, Tag)

\* The same statement after a write through the task form.
C17_FormTagsSameProject ==
  [][(response'.op \in {"form_create", "form_update"} /\ TagsInProject(Task, Tag))
       => TagsInProject(Task', Tag')]_vars

\* An accepted API write linked a task to a tag of the other project.
C17_Witness ==
  /\ response.op \in {"api_create", "api_update"}
  /\ response.errors = {}
  /\ response.task \in DOMAIN Task
  /\ \E g \in response.request.tag_ids \cap Task[response.task].tags :
       Tag[g].project # Task[response.task].project

\* --------------------------------------------- requests that overlap in time
\* Two partial updates through TaskSerializer run at the same time.  Nothing in
\* the serializer or the view opens a transaction around the whole request, so
\* each request commits in pieces (Django's autocommit): Task.save commits the
\* row and the recalculations in its own atomic block, prerequisite_tasks.set
\* commits its removals and insertions in another.  Between the pieces, and
\* between the check_cycle read inside set and the insertion that follows it,
\* the other request may run; each statement reads what is committed.
MaxRaceTasks == 3
MaxRequests == 2

RaceTaskIds == 1 .. MaxRaceTasks
RequestIds == 1 .. MaxRequests

\* A partial update carrying a prerequisite list, with or without a due date.
RaceUpdateData ==
  {[NoData EXCEPT !.keys = {"prerequisite_tasks"} \cup K,
                  !.due_date = IF "due_date" \in K THEN MaxDate ELSE None,
                  !.prerequisite_tasks = P] :
     K \in {{}, {"due_date"}}, P \in (SUBSET RaceTaskIds) \ {{}}}

\* Where a request stands: the task and body, the instance it loaded, the
\* changes set() has computed and the edges its check_cycle read, the errors
\* it ended with, and whether a piece it committed changed a stored value.
NewRequest(pk, data, instance) ==
  [pk |-> pk, data |-> data, instance |-> instance, pc |-> "save", errors |-> {},
   removed |-> {}, added |-> {}, seen |-> {}, changed |-> FALSE]

\* The table as the request's instance object sees it: its own fields as loaded,
\* the m2m relations as stored now.
with_instance(T, pk, instance) ==
  [T EXCEPT ![pk] = [instance EXCEPT !.prerequisite_tasks = T[pk].prerequisite_tasks,
                                     !.tags = T[pk].tags]]

\* The request arrives: the instance is loaded and serializer.is_valid() runs.
RaceValidate(r, pk, data) ==
  LET fe == field_errors(Task, Milestone, pk, data) \cup tag_ids_errors(Tag, data)
      ve == IF fe # {} THEN fe ELSE validate(Task, Milestone, pk, data)
  IN /\ r \notin DOMAIN requests
     /\ pk \in DOMAIN Task
     /\ requests' = Put(requests, r,
                        IF ve # {}
                        THEN [NewRequest(pk, data, Task[pk]) EXCEPT !.pc = "done", !.errors = ve]
                        ELSE NewRequest(pk, data, Task[pk]))
     /\ UNCHANGED <<Task, Milestone, response, dfs, Tag>>

\* TaskSerializer.update up to instance.save(): the fields are assigned,
\* full_clean runs, Task.save commits the row and the recalculations.
RaceSave(r) ==
  /\ r \in DOMAIN requests
  /\ requests[r].pc = "save"
  /\ LET q == requests[r]
         T == with_instance(Task, q.pk, q.instance)
         row == assign(T[q.pk], q.data)
         cleaned == clean(T, Milestone, q.pk, row)
         saved == save(T, Milestone, q.pk, row, FALSE, q.instance.milestone_id,
                       q.instance.due_date, milestone_due(Milestone, row.milestone_id))
         tagged == set_tag_ids(saved.Task, q.pk, q.data)
     IN IF cleaned # {}
        THEN /\ \E e \in cleaned :
                  requests' = [requests EXCEPT ![r].pc = "done", ![r].errors = {e}]
             /\ UNCHANGED <<Task, Milestone>>
        ELSE /\ Task' = tagged
             /\ Milestone' = saved.Milestone
             /\ requests' = [requests EXCEPT
                               ![r].pc = "set",
                               ![r].changed = (tagged # Task \/ saved.Milestone # Milestone)]
  /\ UNCHANGED <<response, dfs, Tag>>

\* prerequisite_tasks.set(), first half: the stored list is read, the changes
\* are computed and the pre_add receiver check_cycle reads the graph.  An
\* error ends the request; the atomic block of set() is rolled back.
RaceCheck(r) ==
  /\ r \in DOMAIN requests
  /\ requests[r].pc = "set"
  /\ LET q == requests[r]
         objs == get_prerequisite_tasks(q.data)
         old == Task[q.pk].prerequisite_tasks
         T1 == remove(Task, q.pk, old \ objs)
         errors == IF objs \ old = {} THEN {}
                   ELSE check_cycle(T1, q.pk, "pre_add", objs \ old)
     IN IF errors # {}
        THEN \E e \in errors :
               requests' = [requests EXCEPT ![r].pc = "done",
                                            ![r].errors = {Err("__all__", e)}]
        ELSE requests' = [requests EXCEPT ![r].pc = "insert", ![r].seen = Edges(T1),
                                          ![r].removed = old \ objs,
                                          ![r].added = objs \ old]
  /\ UNCHANGED <<Task, Milestone, response, dfs, Tag>>

\* prerequisite_tasks.set(), second half: the removals and insertions are
\* written and the atomic block commits.
RaceInsert(r) ==
  /\ r \in DOMAIN requests
  /\ requests[r].pc = "insert"
  /\ LET q == requests[r]
         T1 == [Task EXCEPT ![q.pk].prerequisite_tasks = (@ \ q.removed) \cup q.added]
     IN /\ Task' = T1
        /\ requests' = [requests EXCEPT ![r].pc = "done",
                                        ![r].changed = (@ \/ T1 # Task)]
  /\ UNCHANGED <<Milestone, response, dfs, Tag>>

\* MaxRaceTasks tasks of project 1 whose prerequisite graph is any acyclic one
\* (each task depends on earlier tasks only); no request has arrived.
InitRace ==
  /\ Task \in {T \in [RaceTaskIds ->
                         {[NewTask EXCEPT !.project = 1, !.due_date = 1,
                                          !.prerequisite_tasks = P] :
                            P \in SUBSET RaceTaskIds}] :
                  \A t \in RaceTaskIds : \A x \in T[t].prerequisite_tasks : x < t}
  /\ Milestone = <<>>
  /\ response = NoResponse
  /\ dfs = DfsIdle
  /\ Tag = <<>>
  /\ requests = <<>>

NextRace ==
  \/ \E r \in RequestIds, pk \in RaceTaskIds, data \in RaceUpdateData : RaceValidate(r, pk, data)
  \/ \E r \in RequestIds : RaceSave(r)
  \/ \E r \in RequestIds : RaceCheck(r)
  \/ \E r \in RequestIds : RaceInsert(r)

SpecRace == InitRace /\ [][NextRace]_vars

\* C20: cycle prevention is check-then-act.  Starting from an acyclic graph,
\* the committed graph becomes cyclic only when two accepted writes each ran
\* their check_cycle on a graph that held none of the edges the other one
\* added; a write whose check read the other's edges never closes a cycle.
C20_CycleOnlyByInterleaving ==
  ~ Acyclic(Task) =>
    \E r1 \in DOMAIN requests, r2 \in DOMAIN requests :
      /\ r1 # r2
      /\ requests[r1].pc = "done" /\ requests[r1].errors = {}
      /\ requests[r2].pc = "done" /\ requests[r2].errors = {}
      /\ \A x \in requests[r1].added : <<requests[r1].pk, x>> \notin requests[r2].seen
      /\ \A x \in requests[r2].added : <<requests[r2].pk, x>> \notin requests[r1].seen

\* The interleaving exists: one write made 2 a prerequisite of 1, the other made
\* 1 a prerequisite of 2, both were accepted and the committed graph holds the
\* cycle 1, 2, 1.
C20_Witness ==
  /\ DOMAIN requests = RequestIds
  /\ \A r \in RequestIds : requests[r].pc = "done" /\ requests[r].errors = {}
  /\ \E r1 \in RequestIds, r2 \in RequestIds :
       /\ requests[r1].pk = 1 /\ requests[r1].added = {2}
       /\ requests[r2].pk = 2 /\ requests[r2].added = {1}
  /\ 2 \in Task[1].prerequisite_tasks
  /\ 1 \in Task[2].prerequisite_tasks

\* C12: a task write that is rejected, by validation or by the check that runs
\* when the prerequisites are added after the row is saved, has changed
\* nothing that is stored.
C12_RejectedWriteChangesNothing ==
  \A r \in DOMAIN requests :
    (requests[r].pc = "done" /\ requests[r].errors # {}) => ~ requests[r].changed

\* The same for requests that do not overlap: a rejected write of the API or of
\* the task form leaves the three tables as they were.
C12_SequentialRejectedWriteChangesNothing ==
  [][(response'.op \in TaskWriteOps /\ response'.errors # {})
       => (Task' = Task /\ Milestone' = Milestone /\ Tag' = Tag)]_vars

\* A request whose row was saved with a new due date was then rejected by
\* check_cycle.
C12_Witness ==
  \E r \in DOMAIN requests :
    /\ requests[r].pc = "done"
    /\ requests[r].errors = {Err("__all__", CycleError)}
    /\ requests[r].changed
    /\ Task[requests[r].pk].due_date # requests[r].instance.due_date

\* ------------------------------------- Task.save and Task.delete, step by step
\* A task write (the fields are assigned, then Task.save) or a task delete runs
\* statement by statement next to other requests and to milestone deletes.
\* Task.save and Model.delete run inside transaction.atomic: their writes wait
\* in the request until the block commits and are dropped when it raises.
\* Each statement reads what is committed plus the request's own writes.
MaxSaveTasks == 2
MaxSaveMilestones == 2

SaveTaskIds == 1 .. MaxSaveTasks
SaveMilestoneIds == 1 .. MaxSaveMilestones

\* Variant: the statements commit one by one (no atomic block).
autocommit == FALSE

\* with transaction.atomic(): the statements of save commit together.
atomic == TRUE

\* One recalculation the request still has to run: through a Milestone object
\* fetched with Milestone.objects.get (lookup TRUE) or through the cached
\* self.milestone (lookup FALSE).
Job(ms, lookup) == [ms |-> ms, lookup |-> lookup]

\* The recalculations of one Task.save in the order they run: the post_save
\* receiver (new milestone, old milestone), then step 1 and step 2 of save.
save_jobs(created, old_ms_id, new_ms_id, original_milestone_id, date_changed) ==
  LET milestone_changed == new_ms_id # original_milestone_id
  IN (IF new_ms_id # None /\ (created \/ new_ms_id # old_ms_id)
      THEN <<Job(new_ms_id, TRUE)>> ELSE <<>>)
     \o (IF ~ created /\ old_ms_id # None /\ old_ms_id # new_ms_id
         THEN <<Job(old_ms_id, TRUE)>> ELSE <<>>)
     \o (IF new_ms_id # None /\ (milestone_changed \/ date_changed)
         THEN <<Job(new_ms_id, FALSE)>> ELSE <<>>)
     \o (IF milestone_changed /\ original_milestone_id # None
         THEN <<Job(original_milestone_id, TRUE)>> ELSE <<>>)

\* The milestones a task write or delete has to recalculate: for a write the
\* ones of step 1 and step 2 of Task.save, for a delete the one of the task.
affected(op, instance, row) ==
  IF op = "delete" THEN {instance.milestone_id} \ {None}
  ELSE (IF row.milestone_id # None
           /\ (row.milestone_id # instance.milestone_id \/ row.due_date # instance.due_date)
        THEN {row.milestone_id} ELSE {})
       \cup (IF row.milestone_id # instance.milestone_id /\ instance.milestone_id # None
             THEN {instance.milestone_id} ELSE {})

\* The statement of the request on the task table: the DELETE of the row with
\* its prerequisite rows, or the UPDATE of the columns of the row (the
\* prerequisite and tag rows are not part of it); when the UPDATE finds no row,
\* save inserts the row.
write_row(T, q) ==
  IF q.op = "delete"
  THEN [x \in (DOMAIN T) \ {q.pk} |-> [T[x] EXCEPT !.prerequisite_tasks = @ \ {q.pk}]]
  ELSE IF q.pk \in DOMAIN T
  THEN [T EXCEPT ![q.pk] = [q.row EXCEPT !.prerequisite_tasks = T[q.pk].prerequisite_tasks,
                                         !.tags = T[q.pk].tags]]
  ELSE Put(T, q.pk, [q.row EXCEPT !.prerequisite_tasks = {}, !.tags = {}])

\* The task table as the request reads it: what is committed, with its own
\* written or deleted row.
visible_tasks(T, q) == IF q.wrote THEN write_row(T, q) ELSE T

\* The request at its end: the atomic block has committed (no errors) or has
\* rolled back; its pending writes and working values are gone.
finished(q, errors, committed) ==
  [q EXCEPT !.pc = "done", !.errors = errors, !.changed = (@ \/ committed),
            !.wrote = FALSE, !.todo = <<>>, !.latest = None, !.due_dates = <<>>,
            !.cached_due = None, !.instance = NewTask, !.row = NewTask]

\* The request loads a task, and for a write assigns a milestone and a due date
\* that validation accepts (the milestone is stored and of the same project);
\* self.milestone is cached with the due date it has now.
SaveLoad(r, op, pk, ms, due_date) ==
  /\ r = Len(requests) + 1
  /\ pk \in DOMAIN Task
  /\ ms = None \/ ms \in DOMAIN Milestone
  /\ op = "delete" => (ms = Task[pk].milestone_id /\ due_date = Task[pk].due_date)
  /\ requests' = Put(requests, r,
                     [op |-> op, pk |-> pk, instance |-> Task[pk],
                      row |-> [Task[pk] EXCEPT !.milestone_id = ms, !.due_date = due_date],
                      affected |-> affected(op, Task[pk],
                                            [Task[pk] EXCEPT !.milestone_id = ms, !.due_date = due_date]),
                      cached_due |-> milestone_due(Milestone, ms),
                      pc |-> "row", wrote |-> FALSE, todo |-> <<>>, latest |-> None,
                      due_dates |-> <<>>, recalculated |-> {}, errors |-> {},
                      failed |-> Job(None, FALSE), changed |-> FALSE])
  /\ UNCHANGED <<Task, Milestone, response, dfs, Tag>>

\* super().save() with its pre_save receiver (the stored milestone id is read),
\* or the DELETE of the row; the recalculations to run are lined up.
SaveRow(r) ==
  /\ r \in DOMAIN requests
  /\ requests[r].pc = "row"
  /\ LET q == requests[r]
         created == q.pk \notin DOMAIN Task
         old_ms_id == capture_old_milestone(Task, q.pk)
         todo == IF q.op = "delete"
                 THEN (IF q.instance.milestone_id # None
                       THEN <<Job(q.instance.milestone_id, TRUE)>> ELSE <<>>)
                 ELSE save_jobs(created, old_ms_id, q.row.milestone_id,
                                q.instance.milestone_id,
                                q.row.due_date # q.instance.due_date)
         T1 == write_row(Task, q)
     IN /\ requests' = [requests EXCEPT ![r].pc = "read", ![r].wrote = TRUE,
                                        ![r].todo = todo,
                                        ![r].changed = (~ atomic /\ T1 # Task)]
        /\ Task' = IF atomic THEN Task ELSE T1
  /\ UNCHANGED <<Milestone, response, dfs, Tag>>

\* The first half of one recalculation: the Milestone object (looked up, or the
\* cached one) and the aggregate over its tasks.  A failed lookup is passed
\* over; nothing is written when there is no task or the date is the same.
SaveRecalcRead(r) ==
  /\ r \in DOMAIN requests
  /\ requests[r].pc = "read"
  /\ requests[r].todo # <<>>
  /\ LET q == requests[r]
         job == Head(q.todo)
         found == job.ms \in DOMAIN Milestone
         self_due_date == IF ~ job.lookup THEN q.cached_due
                          ELSE IF job.ms \in DOMAIN q.due_dates THEN q.due_dates[job.ms]
                          ELSE Milestone[job.ms].due_date
         latest == max_date(visible_tasks(Task, q), job.ms)
     IN IF (job.lookup /\ ~ found) \/ latest = None \/ latest = self_due_date
        THEN requests' = [requests EXCEPT ![r].todo = Tail(@),
                                          ![r].recalculated = @ \cup {job.ms}]
        ELSE requests' = [requests EXCEPT ![r].pc = "write", ![r].latest = latest]
  /\ UNCHANGED <<Task, Milestone, response, dfs, Tag>>

\* The second half: self.save(update_fields=['due_date']).  When the row is no
\* longer stored the UPDATE touches nothing and save raises; the exception
\* leaves the atomic block, which rolls back.
SaveRecalcWrite(r) ==
  /\ r \in DOMAIN requests
  /\ requests[r].pc = "write"
  /\ LET q == requests[r]
         job == Head(q.todo)
     IN IF job.ms \in DOMAIN Milestone
        THEN /\ requests' = [requests EXCEPT
                               ![r].pc = "read", ![r].todo = Tail(@),
                               ![r].due_dates = Put(@, job.ms, q.latest),
                               ![r].cached_due = IF job.lookup THEN @ ELSE q.latest,
                               ![r].recalculated = @ \cup {job.ms},
                               ![r].changed = (@ \/ ~ atomic)]
             /\ Milestone' = IF atomic THEN Milestone
                             ELSE [Milestone EXCEPT ![job.ms].due_date = q.latest]
        ELSE /\ requests' = [requests EXCEPT
                               ![r] = [finished(q, {"not_updated"}, FALSE) EXCEPT !.failed = job]]
             /\ UNCHANGED Milestone
  /\ UNCHANGED <<Task, response, dfs, Tag>>

\* The atomic block ends: the row and the milestone dates are committed
\* together.  A row that points at a milestone no longer stored fails the
\* foreign key and the block rolls back.
SaveCommit(r) ==
  /\ r \in DOMAIN requests
  /\ requests[r].pc = "read"
  /\ requests[r].todo = <<>>
  /\ LET q == requests[r]
         T1 == write_row(Task, q)
         M1 == [ms \in DOMAIN Milestone |->
                  IF ms \in DOMAIN q.due_dates
                  THEN [Milestone[ms] EXCEPT !.due_date = q.due_dates[ms]] ELSE Milestone[ms]]
         dangling == q.op = "save" /\ q.row.milestone_id # None
                     /\ q.row.milestone_id \notin DOMAIN Milestone
     IN IF dangling
        THEN /\ requests' = [requests EXCEPT ![r] = finished(q, {"integrity"}, FALSE)]
             /\ UNCHANGED <<Task, Milestone>>
        ELSE /\ requests' = [requests EXCEPT
                               ![r] = finished(q, {}, T1 # Task \/ M1 # Milestone)]
             /\ Task' = T1
             /\ Milestone' = M1
  /\ UNCHANGED <<response, dfs, Tag>>

\* Another user deletes a milestone (one statement group, committed at once).
SaveMilestoneDelete(pk) ==
  /\ requests # <<>>
  /\ pk \in DOMAIN Milestone
  /\ Task' = milestone_delete(Task, Milestone, pk).Task
  /\ Milestone' = milestone_delete(Task, Milestone, pk).Milestone
  /\ UNCHANGED <<response, dfs, Tag, requests>>

\* MaxSaveTasks tasks with any due dates, task 1 in milestone 1, the others in
\* any milestone or in none, and MaxSaveMilestones milestones of project 1,
\* each due on the latest date of its tasks (on the first date when it has
\* none); no request has arrived.
InitSave ==
  /\ Task \in [SaveTaskIds ->
                 {[NewTask EXCEPT !.project = 1, !.due_date = d, !.milestone_id = ms] :
                    d \in Dates, ms \in SaveMilestoneIds \cup {None}}]
  /\ Task[1].milestone_id = 1
  /\ Milestone = [ms \in SaveMilestoneIds |->
                    [project |-> 1,
                     due_date |-> IF max_date(Task, ms) = None THEN 1
                                  ELSE max_date(Task, ms)]]
  /\ response = NoResponse
  /\ dfs = DfsIdle
  /\ Tag = <<>>
  /\ requests = <<>>

NextSave ==
  \/ \E r \in RequestIds, op \in {"save", "delete"}, pk \in SaveTaskIds,
        ms \in SaveMilestoneIds \cup {None}, due_date \in Dates :
       SaveLoad(r, op, pk, ms, due_date)
  \/ \E r \in RequestIds : SaveRow(r)
  \/ \E r \in RequestIds : SaveRecalcRead(r)
  \/ \E r \in RequestIds : SaveRecalcWrite(r)
  \/ \E r \in RequestIds : SaveCommit(r)
  \/ \E pk \in SaveMilestoneIds : SaveMilestoneDelete(pk)

SpecSave == InitSave /\ [][NextSave]_vars

\* C18: a task write and the recalculations of the milestones it affects are
\* one atomic unit.  What a request has written is in the committed tables only
\* once the request has ended without an error and has run the recalculation
\* of every milestone it affects (the one the task is now in and the one it
\* left); a request that ended with an error has changed nothing, its task row
\* included.
C18_WriteAndRecalculationsAtomic ==
  \A r \in DOMAIN requests :
    requests[r].changed =>
      /\ requests[r].pc = "done"
      /\ requests[r].errors = {}
      /\ requests[r].affected \subseteq requests[r].recalculated

\* A task write that moved a task from one milestone to another has committed,
\* both milestones recalculated; and another write ended with an error after it
\* had written its row, with nothing of it committed.
C18_Witness ==
  \E r, f \in DOMAIN requests :
    /\ requests[r].op = "save" /\ requests[r].pc = "done" /\ requests[r].changed
    /\ Cardinality(requests[r].affected) = 2
    /\ requests[r].recalculated = requests[r].affected
    /\ requests[f].op = "save" /\ requests[f].pc = "done"
    /\ requests[f].errors # {} /\ ~ requests[f].changed

\* C19: a milestone that vanishes before or during a recalculation never makes
\* the task write or the task delete that triggered it fail: every request that
\* has ended has ended without an error of the recalculation.
C19_VanishedMilestoneNeverFails ==
  \A r \in DOMAIN requests :
    requests[r].pc = "done" => "not_updated" \notin requests[r].errors

\* A task write has ended with the error of the recalculation's save: the
\* recalculation had looked the milestone up and read the task maximum, and the
\* milestone was deleted before the due date was written.
C19_Witness ==
  \E r \in DOMAIN requests :
    /\ requests[r].op = "save"
    /\ requests[r].pc = "done"
    /\ requests[r].errors = {"not_updated"}
    /\ requests[r].failed.lookup
    /\ requests[r].failed.ms \notin DOMAIN Milestone
    /\ ~ requests[r].changed

\* The lookup case of C19: a request whose milestone was gone when the
\* recalculation looked it up has ended without an error.
C19_FailedLookupIsPassedOver ==
  \E r \in DOMAIN requests :
    /\ requests[r].pc = "done"
    /\ requests[r].errors = {}
    /\ requests[r].affected # {}
    /\ requests[r].affected \cap DOMAIN Milestone = {}

\* ------------------------------------------- milestones edited next to tasks
\* Tasks of project 1 are written and deleted through the API while milestones
\* are created and edited with the milestone form (any target date, any choice
\* of tasks) and through the milestone API (any target date).
MaxEditTasks == 2

EditTaskIds == 1 .. MaxEditTasks

NextMilestoneEdit ==
  \/ \E data \in MilestoneCreateData : ApiCreate(EditTaskIds, data)
  \/ \E pk \in EditTaskIds, data \in MilestoneUpdateData : ApiUpdate(pk, data)
  \/ \E pk \in EditTaskIds : TaskDelete(pk)
  \/ \E due_date \in Dates, tasks \in SUBSET EditTaskIds :
       MilestoneFormCreate(MilestoneIds, 1, due_date, tasks)
  \/ \E pk \in MilestoneIds, due_date \in Dates, tasks \in SUBSET EditTaskIds :
       MilestoneFormUpdate(pk, due_date, tasks)
  \/ \E pk \in MilestoneIds, due_date \in Dates : MilestoneApiUpdate(pk, due_date)

SpecMilestoneEdit == Init /\ [][NextMilestoneEdit]_vars

\* A step of the milestone form that was accepted.
MilestoneFormSaved ==
  /\ response'.op \in {"milestone_form_create", "milestone_form_update"}
  /\ response'.errors = {}

\* C21: every assignment and unassignment of tasks goes through the per-task
\* save and its recalculation, the one made by the milestone form included:
\* after the form is saved, the milestone it wrote and every milestone that
\* gave a task to it have the latest due date of their tasks as due date, and
\* the milestone form changes the milestone of no task whose date the
\* milestone does not follow.
C21_FormAssignmentRecalculates ==
  [][MilestoneFormSaved =>
       \A ms \in DOMAIN Milestone' :
         (HasTasks(Task', ms) /\ (ms = response'.ms \/ tasks_of(Task, ms) # tasks_of(Task', ms)))
           => DueIsLatest(Task', Milestone', ms)]_vars

\* The milestone form was saved with a task chosen and a target date later than
\* the due date of every task of the milestone.
C21_Witness ==
  /\ response.op \in {"milestone_form_create", "milestone_form_update"}
  /\ response.errors = {}
  /\ response.ms \in DOMAIN Milestone
  /\ HasTasks(Task, response.ms)
  /\ \A t \in tasks_of(Task, response.ms) : Task[t].due_date < Milestone[response.ms].due_date

\* C24: in every state a milestone's target date is not earlier than the latest
\* due date of the tasks linked to it.
C24_TargetNotBeforeTasks ==
  \A ms \in DOMAIN Milestone :
    \A t \in tasks_of(Task, ms) : Task[t].due_date <= Milestone[ms].due_date

\* The milestone form keeps the rule of C24: after it is saved the target date
\* is not earlier than the due date of any task of the milestone.
C24_FormKeepsTargetNotBeforeTasks ==
  (/\ response.op \in {"milestone_form_create", "milestone_form_update"}
   /\ response.errors = {}
   /\ response.ms \in DOMAIN Milestone)
    => \A t \in tasks_of(Task, response.ms) : Task[t].due_date <= Milestone[response.ms].due_date

\* A milestone API update has set a target date earlier than the due date of a
\* task of the milestone.
C24_Witness ==
  /\ response.op = "milestone_update"
  /\ response.ms \in DOMAIN Milestone
  /\ \E t \in tasks_of(Task, response.ms) : Task[t].due_date > Milestone[response.ms].due_date

\* The rows of M with the due date left out of the comparison: what a
\* recalculation may not touch.
OtherColumns(M) == [m \in DOMAIN M |-> [M[m] EXCEPT !.due_date = None]]

\* C22: a recalculation writes the due date of the milestone it is called on
\* and nothing else.  Called directly, it leaves every task, every other
\* milestone and the other columns of its own milestone as they were.  Inside a
\* task update it leaves every other task as it was, the written task with the
\* due date the request gave it (its stored one when the request names none),
\* and changes no milestone besides the one the task left and the one it
\* joined, and of those only the due date; inside a task delete it changes no
\* remaining task and only the due date of the milestone the task was in.
C22_RecalculationWritesOnlyDueDate ==
  [][/\ response'.op \in {"recalculate", "recalculate_again"} =>
          /\ Task' = Task
          /\ OtherColumns(Milestone') = OtherColumns(Milestone)
          /\ \A m \in DOMAIN Milestone : m # response'.ms => Milestone'[m] = Milestone[m]
     /\ (response'.op = "api_update" /\ response'.errors = {} /\ response'.task \in DOMAIN Task) =>
          LET t == response'.task
              data == response'.request
          IN /\ DOMAIN Task' = DOMAIN Task
             /\ \A x \in DOMAIN Task : x # t => Task'[x] = Task[x]
             /\ Task'[t].due_date = IF "due_date" \in data.keys THEN data.due_date
                                    ELSE Task[t].due_date
             /\ [Task'[t] EXCEPT !.due_date = Task[t].due_date,
                                 !.milestone_id = Task[t].milestone_id] = Task[t]
             /\ OtherColumns(Milestone') = OtherColumns(Milestone)
             /\ \A m \in DOMAIN Milestone :
                  m \notin {Task[t].milestone_id, Task'[t].milestone_id}
                    => Milestone'[m] = Milestone[m]
     /\ (response'.op = "delete" /\ response'.task \in DOMAIN Task) =>
          /\ \A x \in DOMAIN Task' : Task'[x] = Task[x]
          /\ OtherColumns(Milestone') = OtherColumns(Milestone)
          /\ \A m \in DOMAIN Milestone :
               m # Task[response'.task].milestone_id => Milestone'[m] = Milestone[m]]_vars

\* A recalculation has saved a new due date for its milestone while another
\* milestone, whose due date is not the latest of its tasks, is left as it is.
C22_Witness ==
  /\ response.op = "recalculate"
  /\ response.writes = 1
  /\ response.ms \in DOMAIN Milestone
  /\ DueIsLatest(Task, Milestone, response.ms)
  /\ \E m \in DOMAIN Milestone :
       m # response.ms /\ HasTasks(Task, m) /\ ~ DueIsLatest(Task, Milestone, m)

\* ------------------------------------------------ milestones that become empty
\* Every milestone of project 1 is created with the target date MaxDate and is
\* never edited afterwards; tasks are created, updated (due date, assign, move,
\* unassign) and deleted through the API.
NextEmptied ==
  \/ MilestoneCreate(MilestoneIds, MaxDate)
  \/ \E data \in MilestoneCreateData : ApiCreate(EditTaskIds, data)
  \/ \E pk \in EditTaskIds, data \in MilestoneUpdateData : ApiUpdate(pk, data)
  \/ \E pk \in EditTaskIds : TaskDelete(pk)

SpecEmptied == Init /\ [][NextEmptied]_vars

\* C23: a milestone without tasks has the due date last given to it by a
\* milestone create or edit: here, where every milestone was created with the
\* target date MaxDate and never edited, the due date MaxDate.
C23_EmptyMilestoneKeepsExplicitDate ==
  \A ms \in DOMAIN Milestone : ~ HasTasks(Task, ms) => Milestone[ms].due_date = MaxDate

\* The first half of C23: a recalculation of a milestone without tasks saves
\* nothing and changes nothing.
C23_RecalculateWithoutTasksChangesNothing ==
  [][(response'.op \in {"recalculate", "recalculate_again"} /\ ~ HasTasks(Task, response'.ms))
       => /\ Milestone' = Milestone
          /\ Task' = Task
          /\ response'.writes = IF response'.op = "recalculate" THEN 0 ELSE response.writes]_vars

\* The deletion of its last task has left a milestone without tasks, and the
\* milestone has the due date of that task, not the target date it was
\* created with.
C23_Witness ==
  /\ response.op = "delete"
  /\ response.ms \in DOMAIN Milestone
  /\ ~ HasTasks(Task, response.ms)
  /\ Milestone[response.ms].due_date = response.value
  /\ Milestone[response.ms].due_date # MaxDate

\* ------------------------------------------------ tasks created with prerequisites
\* Tasks of project 1 are created through the API and through the task form
\* with any prerequisite list, updated through the API and deleted.
NextCreate ==
  \/ \E data \in GraphCreateData : ApiCreate(TaskIds, data)
  \/ \E data \in GraphCreateData : FormCreate(TaskIds, data)
  \/ \E pk \in TaskIds, data \in GraphUpdateData : ApiUpdate(pk, data)
  \/ \E pk \in TaskIds : TaskDelete(pk)

SpecCreate == Init /\ [][NextCreate]_vars

\* C25: creating a task with any prerequisite list never introduces a cycle,
\* although the validator's cycle check is skipped for a task without a key.
\* A create (API or form) on an acyclic graph leaves the graph acyclic and is
\* never rejected for a cycle or a self reference; when it is accepted the new
\* task has a key no stored task had, exactly the prerequisites of the request
\* and no dependent, and every other task is as it was.
C25_CreateKeepsAcyclic ==
  [][response'.op \in {"api_create", "form_create"} =>
       LET t == response'.task
           data == response'.request
       IN /\ Acyclic(Task) => Acyclic(Task')
          /\ \A e \in response'.errors : e.error \notin {SelfDependencyError, CycleError}
          /\ response'.errors = {} =>
               /\ t \notin DOMAIN Task
               /\ DOMAIN Task' = DOMAIN Task \cup {t}
               /\ \A x \in DOMAIN Task : Task'[x] = Task[x]
               /\ Task'[t].prerequisite_tasks = get_prerequisite_tasks(data)
               /\ dependents(Task', t) = {}]_vars

\* A task was created through the form with two prerequisites, one of which
\* depends on the other.
C25_Witness ==
  /\ response.op = "form_create"
  /\ response.errors = {}
  /\ response.task \in DOMAIN Task
  /\ \E p, q \in Task[response.task].prerequisite_tasks :
       p # q /\ q \in Task[p].prerequisite_tasks

\* C26: the all-tasks-done short-circuit never changes the result.  For a
\* project with tasks and milestones the weighted formula alone gives the value
\* of the progress function, 100.0 when every task is done; a progress that
\* was read is that value.
C26_ShortCircuitAgrees ==
  (TotalTasks > 0 /\ AllMilestones > 0) =>
    /\ DoneTasks = TotalTasks => weighted_progress(Task, Milestone, 1) = 10000
    /\ _calculate_progress_value(Task, Milestone, 1) = weighted_progress(Task, Milestone, 1)
    /\ response.op = "progress" => response.value = weighted_progress(Task, Milestone, 1)

\* Progress was read as 100.0 for a project whose tasks are all done, some of
\* them stray, with one milestone that has tasks and one that has none.
C26_Witness ==
  /\ response.op = "progress"
  /\ response.value = 10000
  /\ TotalTasks > 0
  /\ DoneTasks = TotalTasks
  /\ StrayTasks > 0
  /\ \E m \in DOMAIN Milestone : HasTasks(Task, m)
  /\ \E m \in DOMAIN Milestone : ~ HasTasks(Task, m)

\* C27 as stated: a project in which no task is done has progress 0.0,
\* milestones without tasks or not.
C27_NoDoneTaskNoProgress ==
  (response.op = "progress" /\ DoneTasks = 0) => response.value = 0

\* C27: a project in which no task is done and every milestone has at least
\* one task has progress 0.0, whatever the number of tasks and milestones and
\* the assignment of tasks to milestones.
C27_NoProgressWhenNoMilestoneIsEmpty ==
  (/\ response.op = "progress"
   /\ DoneTasks = 0
   /\ \A m \in DOMAIN Milestone : HasTasks(Task, m)) => response.value = 0

\* Progress was read as 0.0 for a project with two milestones that both have
\* tasks, a stray task, a task in progress and no done task.
C27_Witness ==
  /\ response.op = "progress"
  /\ response.value = 0
  /\ DoneTasks = 0
  /\ AllMilestones = 2
  /\ \A m \in DOMAIN Milestone : HasTasks(Task, m)
  /\ StrayTasks > 0
  /\ \E t \in DOMAIN Task : Task[t].status = "in_progress" /\ Task[t].milestone_id # None

\* Progress was read as more than 0.0 for a project with a task to do, no done
\* task and a milestone without tasks.
C27_EmptyMilestoneCounts ==
  /\ response.op = "progress"
  /\ response.value > 0
  /\ TotalTasks > 0
  /\ DoneTasks = 0
  /\ \E m \in DOMAIN Milestone : ~ HasTasks(Task, m)

\* ------------------------------------------ the relation written from both sides
\* Tasks of project 1 are created through the API; prerequisites are added
\* from the prerequisite side and from the dependents side.
NextDependents ==
  \/ \E data \in GraphCreateData : ApiCreate(TaskIds, data)
  \/ \E pk \in TaskIds, objs \in SUBSET TaskIds : PrerequisiteAdd(pk, objs)
  \/ \E pk \in TaskIds, objs \in SUBSET TaskIds : DependentsAdd(pk, objs)

SpecDependents == Init /\ [][NextDependents]_vars

\* C28: when task B is added to the dependents of task A, the add is rejected
\* exactly when A = B or B is already a direct or transitive prerequisite of A,
\* that is, when the edge from B to A would close a cycle; a rejected add
\* leaves the graph as it was and an accepted one adds the edge.
C28_ReverseAddRejectsExactlyCycles ==
  [][(/\ response'.op = "dependents_add"
      /\ response'.task \in DOMAIN Task
      /\ Cardinality(response'.request.prerequisite_tasks) = 1)
     => LET A == response'.task
            B == CHOOSE b \in response'.request.prerequisite_tasks : TRUE
        IN /\ response'.errors # {} <=> (A = B \/ B \in Prerequisites(Task, A))
           /\ response'.errors # {} => Edges(Task') = Edges(Task)
           /\ response'.errors = {} => Edges(Task') = Edges(Task) \cup {<<B, A>>}]_vars

\* An add from the dependents side was accepted and the graph now holds a
\* cycle through the two tasks.
C28_Witness ==
  /\ response.op = "dependents_add"
  /\ response.errors = {}
  /\ response.task \in DOMAIN Task
  /\ \E B \in response.request.prerequisite_tasks :
       /\ B # response.task
       /\ response.task \in Task[B].prerequisite_tasks
       /\ B \in Prerequisites(Task, response.task)

\* An add from the dependents side was rejected although the edge would have
\* closed no cycle: the new dependent already depended on the task through a
\* third one.
C28_HarmlessAddRejected ==
  /\ response.op = "dependents_add"
  /\ response.errors # {}
  /\ response.task \in DOMAIN Task
  /\ \E B \in response.request.prerequisite_tasks :
       /\ response.request.prerequisite_tasks = {B}
       /\ B # response.task
       /\ B \notin Prerequisites(Task, response.task)

\* ---------------------------------------------------------------------------
\* Prerequisite list written by an accepted update
\* ---------------------------------------------------------------------------

\* The step is an accepted update through `op` whose request supplied a
\* prerequisite list.
UpdateSupplied(op) ==
  /\ response'.op = op
  /\ response'.errors = {}
  /\ response'.task \in DOMAIN Task'
  /\ "prerequisite_tasks" \in response'.request.keys

\* C29: after an accepted task update that supplies a prerequisite list P the
\* task's prerequisite set is exactly P; an empty P leaves the task with no
\* prerequisites.
C29_UpdateStoresSuppliedList ==
  [][UpdateSupplied("api_update") =>
       Task'[response'.task].prerequisite_tasks = response'.request.prerequisite_tasks]_vars

\* An accepted API update that supplied the empty list answered for a task
\* that still has a prerequisite.
C29_Witness ==
  /\ response.op = "api_update"
  /\ response.errors = {}
  /\ response.task \in DOMAIN Task
  /\ "prerequisite_tasks" \in response.request.keys
  /\ response.request.prerequisite_tasks = {}
  /\ Task[response.task].prerequisite_tasks # {}

\* A non-empty list supplied through the API replaces the stored set.
C29_ApiStoresNonEmptyList ==
  [][(UpdateSupplied("api_update") /\ response'.request.prerequisite_tasks # {}) =>
       Task'[response'.task].prerequisite_tasks = response'.request.prerequisite_tasks]_vars

\* The form always writes the cleaned list, the empty one included.
C29_FormStoresCleanedList ==
  [][(response'.op = "form_update" /\ response'.errors = {}
      /\ response'.task \in DOMAIN Task') =>
       Task'[response'.task].prerequisite_tasks = response'.request.prerequisite_tasks]_vars

\* An accepted form update without a chosen prerequisite cleared a stored set.
C29_FormClears ==
  /\ response.op = "form_update"
  /\ response.errors = {}
  /\ response.request.prerequisite_tasks = {}
  /\ \E pk \in DOMAIN Task : Task[pk].prerequisite_tasks # {}

\* ---------------------------------------------------------------------------
\* Concurrent task writes on one milestone
\* ---------------------------------------------------------------------------

\* Every request in R has committed without an error.
Committed(R) ==
  \A r \in R : requests[r].pc = "done" /\ requests[r].errors = {}

\* Milestone ms is stored, has tasks, and its due date is their latest.
Synchronised(ms) ==
  (ms \in DOMAIN Milestone /\ max_date(Task, ms) # None) =>
    Milestone[ms].due_date = max_date(Task, ms)

\* C30: once two task writes that affect the same milestone have both
\* committed, the milestone's due date is the latest due date of the tasks
\* then linked to it, whatever the interleaving.
C30_ConcurrentWritersSynchronise ==
  (Len(requests) = 2 /\ Committed({1, 2})) =>
    \A ms \in requests[1].affected \cap requests[2].affected : Synchronised(ms)

\* Two saves of different tasks that affect the same stored milestone have
\* both committed and the milestone is not due on the latest date of its tasks.
C30_Witness ==
  /\ Len(requests) = 2
  /\ Committed({1, 2})
  /\ requests[1].op = "save" /\ requests[2].op = "save"
  /\ requests[1].pk # requests[2].pk
  /\ \E ms \in requests[1].affected \cap requests[2].affected :
       /\ ms \in DOMAIN Milestone
       /\ max_date(Task, ms) # None
       /\ Milestone[ms].due_date # max_date(Task, ms)

\* A single writer leaves every milestone it affects synchronised.
C30_SingleWriterSynchronises ==
  (Len(requests) = 1 /\ Committed({1})) =>
    \A ms \in requests[1].affected : Synchronised(ms)

====
